---- MODULE Spec2Model ----
(***************************************************************************)
(* kinradar: the depth-frame projection and binning engine.                *)
(*                                                                         *)
(* The model follows the second program of src/unnamed/part_000 (lines     *)
(* 330-905): main()'s option parsing gives the initial state, the main     *)
(* loop hands frames to depth(), and depth() is taken one step of its body *)
(* at a time (clear, one pixel of the binning loop, border, print, flag).  *)
(*                                                                         *)
(* Numbers.  Distances are integers in centimetres.  The float arithmetic  *)
(* of the program is modelled by exact rational arithmetic: a value that   *)
(* is not an integer is carried as numerator and denominator, and the      *)
(* conversion (int)(float) is ToInt, truncation toward zero.  World        *)
(* offsets returned by xworld/yworld are kept in units of                  *)
(* .70021 / (FREENECT_FRAME_W / 2) centimetres, the factor xworld applies  *)
(* to every offset, wmax included.                                         *)
(*                                                                         *)
(* Memory.  gridpop[v][u] is gridpop_buffer[v * udiv + u] (alloc_grid), so *)
(* an index u outside 0..udiv-1 reaches another row of the same buffer or  *)
(* a word outside the buffer.  The word outside the buffer is the field    *)
(* "outside" of a grid: it holds whatever the heap held (Garbage), is not  *)
(* touched by clear_grid, and an access to it may also end the process.    *)
(*                                                                         *)
(* Signals.  intr() may run between any two steps.  out_of_range and done  *)
(* are bit-fields of one word, so the write of out_of_range in depth() is  *)
(* a read of the word (LoadFlagWord) and a write of the word (SetFlag).    *)
(*                                                                         *)
(* Spec runs the program on the row bands, far planes and display modes of *)
(* Opt_y, Opt_Y, Opt_Z and Opt_hv; SpecCone runs it on the near planes of  *)
(* ConeOpt_z, behind the sensor, and on a frame with one return.           *)
(*                                                                         *)
(* Earlier programs.  SpecProto is the single-cone prototype (first        *)
(* program of part_000), SpecDual the dual-view prototype (first program   *)
(* of part_001) and SpecStats the grid-statistics program (kincone.c).     *)
(* They share the main loop, the frames and the variables of the model;    *)
(* each has the steps of its own depth().                                  *)
(***************************************************************************)
EXTENDS Integers, Sequences, FiniteSets, TLC

\* ------------------------------------------------------------------ bounds
\* Sensor resolution (libfreenect: 640 x 480), scaled down, same 4:3 shape.
FREENECT_FRAME_W == 8
FREENECT_FRAME_H == 6
FREENECT_FRAME_PIX == FREENECT_FRAME_W * FREENECT_FRAME_H

\* Grid divisions set by init_data (65 x 32 overhead, 32 x 80 side), scaled down.
XGRID_UDIV == 3
XGRID_VDIV == 2
YGRID_UDIV == 2
YGRID_VDIV == 3

\* Frames delivered in one session.
MaxFrames == 2

\* ------------------------------------------------------------- arithmetic
Abs(a) == IF a < 0 THEN -a ELSE a

\* Mutant of ToInt: the quotient rounded down.
ToInt_floor(n, d) == IF d < 0 THEN (-n) \div (-d) ELSE n \div d

\* (int)(n / d) for the real quotient n / d: C truncates toward zero.
ToInt(n, d) ==
    LET q == Abs(n) \div Abs(d)
    IN  IF (n < 0) # (d < 0) THEN -q ELSE q

\* C integer division a / b.
CDiv(a, b) == ToInt(a, b)

\* ------------------------------------------------------------ depth table
\* init_lut: depth_lut[i] = 0.1236 * tanf(i / 2842.5 + 1.1863) metres, here the
\* 2048 values the program computes, rounded to centimetres.  TLA+ sequences
\* start at 1: depth_lut_cm[i + 1] is the entry of code i.
depth_lut_cm == <<
    31, 31, 31, 31, 31, 31, 31, 31, 31, 31, 31, 31, 31, 31, 31, 31,
    31, 31, 31, 31, 31, 31, 31, 31, 31, 31, 31, 31, 31, 31, 31, 32,
    32, 32, 32, 32, 32, 32, 32, 32, 32, 32, 32, 32, 32, 32, 32, 32,
    32, 32, 32, 32, 32, 32, 32, 32, 32, 32, 32, 32, 33, 33, 33, 33,
    33, 33, 33, 33, 33, 33, 33, 33, 33, 33, 33, 33, 33, 33, 33, 33,
    33, 33, 33, 33, 33, 33, 33, 33, 33, 34, 34, 34, 34, 34, 34, 34,
    34, 34, 34, 34, 34, 34, 34, 34, 34, 34, 34, 34, 34, 34, 34, 34,
    34, 34, 34, 34, 35, 35, 35, 35, 35, 35, 35, 35, 35, 35, 35, 35,
    35, 35, 35, 35, 35, 35, 35, 35, 35, 35, 35, 35, 35, 36, 36, 36,
    36, 36, 36, 36, 36, 36, 36, 36, 36, 36, 36, 36, 36, 36, 36, 36,
    36, 36, 36, 36, 36, 37, 37, 37, 37, 37, 37, 37, 37, 37, 37, 37,
    37, 37, 37, 37, 37, 37, 37, 37, 37, 37, 37, 37, 38, 38, 38, 38,
    38, 38, 38, 38, 38, 38, 38, 38, 38, 38, 38, 38, 38, 38, 38, 38,
    38, 38, 39, 39, 39, 39, 39, 39, 39, 39, 39, 39, 39, 39, 39, 39,
    39, 39, 39, 39, 39, 39, 39, 40, 40, 40, 40, 40, 40, 40, 40, 40,
    40, 40, 40, 40, 40, 40, 40, 40, 40, 40, 40, 41, 41, 41, 41, 41,
    41, 41, 41, 41, 41, 41, 41, 41, 41, 41, 41, 41, 41, 41, 41, 42,
    42, 42, 42, 42, 42, 42, 42, 42, 42, 42, 42, 42, 42, 42, 42, 42,
    42, 43, 43, 43, 43, 43, 43, 43, 43, 43, 43, 43, 43, 43, 43, 43,
    43, 43, 43, 44, 44, 44, 44, 44, 44, 44, 44, 44, 44, 44, 44, 44,
    44, 44, 44, 45, 45, 45, 45, 45, 45, 45, 45, 45, 45, 45, 45, 45,
    45, 45, 45, 46, 46, 46, 46, 46, 46, 46, 46, 46, 46, 46, 46, 46,
    46, 46, 46, 47, 47, 47, 47, 47, 47, 47, 47, 47, 47, 47, 47, 47,
    47, 47, 48, 48, 48, 48, 48, 48, 48, 48, 48, 48, 48, 48, 48, 48,
    49, 49, 49, 49, 49, 49, 49, 49, 49, 49, 49, 49, 49, 49, 50, 50,
    50, 50, 50, 50, 50, 50, 50, 50, 50, 50, 50, 51, 51, 51, 51, 51,
    51, 51, 51, 51, 51, 51, 51, 51, 52, 52, 52, 52, 52, 52, 52, 52,
    52, 52, 52, 52, 53, 53, 53, 53, 53, 53, 53, 53, 53, 53, 53, 53,
    54, 54, 54, 54, 54, 54, 54, 54, 54, 54, 54, 54, 55, 55, 55, 55,
    55, 55, 55, 55, 55, 55, 55, 56, 56, 56, 56, 56, 56, 56, 56, 56,
    56, 57, 57, 57, 57, 57, 57, 57, 57, 57, 57, 57, 58, 58, 58, 58,
    58, 58, 58, 58, 58, 58, 59, 59, 59, 59, 59, 59, 59, 59, 59, 60,
    60, 60, 60, 60, 60, 60, 60, 60, 60, 61, 61, 61, 61, 61, 61, 61,
    61, 61, 62, 62, 62, 62, 62, 62, 62, 62, 63, 63, 63, 63, 63, 63,
    63, 63, 63, 64, 64, 64, 64, 64, 64, 64, 64, 65, 65, 65, 65, 65,
    65, 65, 65, 66, 66, 66, 66, 66, 66, 66, 66, 67, 67, 67, 67, 67,
    67, 67, 67, 68, 68, 68, 68, 68, 68, 68, 69, 69, 69, 69, 69, 69,
    69, 70, 70, 70, 70, 70, 70, 70, 71, 71, 71, 71, 71, 71, 71, 72,
    72, 72, 72, 72, 72, 73, 73, 73, 73, 73, 73, 73, 74, 74, 74, 74,
    74, 74, 75, 75, 75, 75, 75, 75, 76, 76, 76, 76, 76, 76, 77, 77,
    77, 77, 77, 77, 78, 78, 78, 78, 78, 78, 79, 79, 79, 79, 79, 80,
    80, 80, 80, 80, 81, 81, 81, 81, 81, 81, 82, 82, 82, 82, 82, 83,
    83, 83, 83, 83, 84, 84, 84, 84, 84, 85, 85, 85, 85, 86, 86, 86,
    86, 86, 87, 87, 87, 87, 87, 88, 88, 88, 88, 89, 89, 89, 89, 90,
    90, 90, 90, 90, 91, 91, 91, 91, 92, 92, 92, 92, 93, 93, 93, 93,
    94, 94, 94, 94, 95, 95, 95, 95, 96, 96, 96, 97, 97, 97, 97, 98,
    98, 98, 98, 99, 99, 99, 100, 100, 100, 100, 101, 101, 101, 102, 102, 102,
    103, 103, 103, 103, 104, 104, 104, 105, 105, 105, 106, 106, 106, 107, 107, 107,
    108, 108, 108, 109, 109, 109, 110, 110, 110, 111, 111, 111, 112, 112, 113, 113,
    113, 114, 114, 114, 115, 115, 116, 116, 116, 117, 117, 117, 118, 118, 119, 119,
    120, 120, 120, 121, 121, 122, 122, 122, 123, 123, 124, 124, 125, 125, 126, 126,
    126, 127, 127, 128, 128, 129, 129, 130, 130, 131, 131, 132, 132, 133, 133, 134,
    134, 135, 135, 136, 136, 137, 137, 138, 139, 139, 140, 140, 141, 141, 142, 143,
    143, 144, 144, 145, 145, 146, 147, 147, 148, 149, 149, 150, 150, 151, 152, 152,
    153, 154, 154, 155, 156, 157, 157, 158, 159, 159, 160, 161, 162, 162, 163, 164,
    165, 165, 166, 167, 168, 169, 169, 170, 171, 172, 173, 174, 175, 175, 176, 177,
    178, 179, 180, 181, 182, 183, 184, 185, 186, 187, 188, 189, 190, 191, 192, 193,
    194, 195, 196, 197, 198, 199, 201, 202, 203, 204, 205, 207, 208, 209, 210, 211,
    213, 214, 215, 217, 218, 219, 221, 222, 224, 225, 227, 228, 230, 231, 233, 234,
    236, 237, 239, 241, 242, 244, 246, 247, 249, 251, 253, 255, 256, 258, 260, 262,
    264, 266, 268, 270, 272, 274, 277, 279, 281, 283, 286, 288, 290, 293, 295, 298,
    300, 303, 306, 308, 311, 314, 317, 319, 322, 325, 328, 332, 335, 338, 341, 345,
    348, 351, 355, 359, 362, 366, 370, 374, 378, 382, 386, 391, 395, 399, 404, 409,
    414, 418, 424, 429, 434, 439, 445, 451, 457, 463, 469, 475, 482, 488, 495, 502,
    510, 517, 525, 533, 541, 549, 558, 567, 577, 586, 596, 606, 617, 628, 640, 651,
    664, 676, 690, 704, 718, 733, 749, 765, 782, 800, 818, 838, 858, 880, 902, 926,
    951, 978, 1006, 1035, 1067, 1100, 1136, 1174, 1214, 1258, 1305, 1355, 1409, 1468, 1532, 1602,
    1679, 1763, 1856, 1959, 2075, 2205, 2353, 2522, 2717, 2945, 3214, 3538, 3934, 4430, 5069, 5924,
    7125, 8938, 11987, 18198, 37749, -507339, -32859, -16980, -11447, -8634, -6931, -5789, -4970, -4354, -3874, -3489,
    -3174, -2911, -2688, -2497, -2331, -2186, -2058, -1944, -1842, -1751, -1667, -1592, -1523, -1460, -1401, -1348,
    -1298, -1252, -1209, -1168, -1131, -1096, -1062, -1031, -1002, -974, -948, -923, -899, -877, -855, -835,
    -816, -797, -779, -763, -746, -731, -716, -702, -688, -675, -662, -650, -638, -627, -616, -605,
    -595, -585, -575, -566, -557, -548, -540, -532, -524, -516, -509, -501, -494, -487, -481, -474,
    -468, -462, -456, -450, -444, -439, -433, -428, -423, -418, -413, -408, -403, -399, -394, -390,
    -386, -381, -377, -373, -369, -366, -362, -358, -354, -351, -347, -344, -341, -337, -334, -331,
    -328, -325, -322, -319, -316, -313, -311, -308, -305, -303, -300, -297, -295, -292, -290, -288,
    -285, -283, -281, -279, -276, -274, -272, -270, -268, -266, -264, -262, -260, -258, -256, -254,
    -252, -251, -249, -247, -245, -244, -242, -240, -239, -237, -235, -234, -232, -231, -229, -228,
    -226, -225, -223, -222, -221, -219, -218, -217, -215, -214, -213, -211, -210, -209, -208, -206,
    -205, -204, -203, -202, -200, -199, -198, -197, -196, -195, -194, -193, -192, -191, -190, -189,
    -188, -187, -186, -185, -184, -183, -182, -181, -180, -179, -178, -177, -176, -175, -174, -174,
    -173, -172, -171, -170, -169, -169, -168, -167, -166, -165, -165, -164, -163, -162, -162, -161,
    -160, -159, -159, -158, -157, -156, -156, -155, -154, -154, -153, -152, -152, -151, -150, -150,
    -149, -148, -148, -147, -147, -146, -145, -145, -144, -144, -143, -142, -142, -141, -141, -140,
    -140, -139, -138, -138, -137, -137, -136, -136, -135, -135, -134, -134, -133, -133, -132, -132,
    -131, -131, -130, -130, -129, -129, -128, -128, -127, -127, -126, -126, -125, -125, -125, -124,
    -124, -123, -123, -122, -122, -122, -121, -121, -120, -120, -119, -119, -119, -118, -118, -117,
    -117, -117, -116, -116, -115, -115, -115, -114, -114, -114, -113, -113, -112, -112, -112, -111,
    -111, -111, -110, -110, -110, -109, -109, -109, -108, -108, -108, -107, -107, -107, -106, -106,
    -106, -105, -105, -105, -104, -104, -104, -103, -103, -103, -103, -102, -102, -102, -101, -101,
    -101, -100, -100, -100, -100, -99, -99, -99, -98, -98, -98, -98, -97, -97, -97, -97,
    -96, -96, -96, -95, -95, -95, -95, -94, -94, -94, -94, -93, -93, -93, -93, -92,
    -92, -92, -92, -91, -91, -91, -91, -90, -90, -90, -90, -90, -89, -89, -89, -89,
    -88, -88, -88, -88, -87, -87, -87, -87, -87, -86, -86, -86, -86, -86, -85, -85,
    -85, -85, -84, -84, -84, -84, -84, -83, -83, -83, -83, -83, -82, -82, -82, -82,
    -82, -81, -81, -81, -81, -81, -80, -80, -80, -80, -80, -80, -79, -79, -79, -79,
    -79, -78, -78, -78, -78, -78, -78, -77, -77, -77, -77, -77, -77, -76, -76, -76,
    -76, -76, -76, -75, -75, -75, -75, -75, -75, -74, -74, -74, -74, -74, -74, -73,
    -73, -73, -73, -73, -73, -72, -72, -72, -72, -72, -72, -72, -71, -71, -71, -71,
    -71, -71, -71, -70, -70, -70, -70, -70, -70, -70, -69, -69, -69, -69, -69, -69,
    -69, -68, -68, -68, -68, -68, -68, -68, -67, -67, -67, -67, -67, -67, -67, -67,
    -66, -66, -66, -66, -66, -66, -66, -66, -65, -65, -65, -65, -65, -65, -65, -65,
    -64, -64, -64, -64, -64, -64, -64, -64, -63, -63, -63, -63, -63, -63, -63, -63,
    -62, -62, -62, -62, -62, -62, -62, -62, -62, -61, -61, -61, -61, -61, -61, -61,
    -61, -61, -60, -60, -60, -60, -60, -60, -60, -60, -60, -60, -59, -59, -59, -59,
    -59, -59, -59, -59, -59, -58, -58, -58, -58, -58, -58, -58, -58, -58, -58, -57,
    -57, -57, -57, -57, -57, -57, -57, -57, -57, -57, -56, -56, -56, -56, -56, -56,
    -56, -56, -56, -56, -55, -55, -55, -55, -55, -55, -55, -55, -55, -55, -55, -54,
    -54, -54, -54, -54, -54, -54, -54, -54, -54, -54, -54, -53, -53, -53, -53, -53,
    -53, -53, -53, -53, -53, -53, -53, -52, -52, -52, -52, -52, -52, -52, -52, -52,
    -52, -52, -52, -51, -51, -51, -51, -51, -51, -51, -51, -51, -51, -51, -51, -51,
    -50, -50, -50, -50, -50, -50, -50, -50, -50, -50, -50, -50, -50, -49, -49, -49,
    -49, -49, -49, -49, -49, -49, -49, -49, -49, -49, -49, -48, -48, -48, -48, -48,
    -48, -48, -48, -48, -48, -48, -48, -48, -48, -47, -47, -47, -47, -47, -47, -47,
    -47, -47, -47, -47, -47, -47, -47, -47, -46, -46, -46, -46, -46, -46, -46, -46,
    -46, -46, -46, -46, -46, -46, -46, -45, -45, -45, -45, -45, -45, -45, -45, -45,
    -45, -45, -45, -45, -45, -45, -45, -45, -44, -44, -44, -44, -44, -44, -44, -44,
    -44, -44, -44, -44, -44, -44, -44, -44, -43, -43, -43, -43, -43, -43, -43, -43,
    -43, -43, -43, -43, -43, -43, -43, -43, -43, -43, -42, -42, -42, -42, -42, -42,
    -42, -42, -42, -42, -42, -42, -42, -42, -42, -42, -42, -42, -41, -41, -41, -41,
    -41, -41, -41, -41, -41, -41, -41, -41, -41, -41, -41, -41, -41, -41, -41, -40,
    -40, -40, -40, -40, -40, -40, -40, -40, -40, -40, -40, -40, -40, -40, -40, -40,
    -40, -40, -40, -39, -39, -39, -39, -39, -39, -39, -39, -39, -39, -39, -39, -39,
    -39, -39, -39, -39, -39, -39, -39, -39, -38, -38, -38, -38, -38, -38, -38, -38,
    -38, -38, -38, -38, -38, -38, -38, -38, -38, -38, -38, -38, -38, -38, -37, -37,
    -37, -37, -37, -37, -37, -37, -37, -37, -37, -37, -37, -37, -37, -37, -37, -37,
    -37, -37, -37, -37, -37, -37, -36, -36, -36, -36, -36, -36, -36, -36, -36, -36,
    -36, -36, -36, -36, -36, -36, -36, -36, -36, -36, -36, -36, -36, -36, -35, -35
>>

depth_lut(i) == depth_lut_cm[i + 1]

\* ------------------------------------------------------------- projection
\* xworld, in units of .70021 / (FREENECT_FRAME_W / 2) cm; z in cm.
xworld(px, z) == (CDiv(FREENECT_FRAME_W, 2) - px) * z

yworld(py, z) == xworld(py + CDiv(FREENECT_FRAME_W - FREENECT_FRAME_H, 2), z)

\* Mutant of xyworld_to_grid: the shift by wmax left out.
xyworld_to_grid_no_offset(grid, wn, wd) == ToInt(wn * grid.udiv, 2 * grid.wmax * wd)

\* (int)((w + wmax) * udiv / (2.0f * wmax)) for w = wn / wd.
xyworld_to_grid(grid, wn, wd) ==
    ToInt((wn + grid.wmax * wd) * grid.udiv, 2 * grid.wmax * wd)

\* Mutant of zworld_to_grid: the upper clamp left out.
zworld_to_grid_no_upper(grid, zn, zd) ==
    LET val == ToInt((zn - grid.zmin * zd) * grid.vdiv, (grid.zmax - grid.zmin) * zd)
    IN  IF val < 0 THEN 0 ELSE val

\* (int)((z - zmin) * vdiv / (zmax - zmin)) for z = zn / zd, clamped into 0..vdiv-1.
zworld_to_grid(grid, zn, zd) ==
    LET val == ToInt((zn - grid.zmin * zd) * grid.vdiv, (grid.zmax - grid.zmin) * zd)
        lo  == IF val < 0 THEN 0 ELSE val
    IN  IF lo >= grid.vdiv THEN grid.vdiv - 1 ELSE lo

\* zg * (zmax - zmin) / vdiv + zmin, as a numerator over grid.vdiv.
zgrid_to_world(grid, zg) == zg * (grid.zmax - grid.zmin) + grid.zmin * grid.vdiv

\* ------------------------------------------------------------ grid memory
\* Words of uninitialised heap outside a grid buffer.
Garbage == {0, 20}

\* gridpop[v] = gridpop_buffer + v * udiv: the buffer index of gridpop[v][u].
GridIndex(grid, v, u) == v * grid.udiv + u

InBuffer(grid, i) == i \in 0 .. grid.bufsize - 1

\* alloc_grid after init_data / option parsing; bufsize counts ints.
alloc_grid(udiv, vdiv, zmin, zmax, wmax) ==
    [udiv |-> udiv, vdiv |-> vdiv, zmin |-> zmin, zmax |-> zmax, wmax |-> wmax,
     bufsize |-> udiv * vdiv,
     gridpop |-> [i \in 0 .. udiv * vdiv - 1 |-> 0],
     popmax |-> 0,
     outside |-> 0, oob |-> FALSE]

\* The value read by gridpop[v][u].
gridpop_read(grid, v, u) ==
    IF InBuffer(grid, GridIndex(grid, v, u))
    THEN grid.gridpop[GridIndex(grid, v, u)]
    ELSE grid.outside

\* gridpop[v][u] = val.
gridpop_write(grid, v, u, val) ==
    IF InBuffer(grid, GridIndex(grid, v, u))
    THEN [grid EXCEPT !.gridpop[GridIndex(grid, v, u)] = val]
    ELSE [grid EXCEPT !.outside = val, !.oob = TRUE]

\* The first access outside the buffer finds the heap word gv there.
heap_word(grid, v, u, gv) ==
    IF InBuffer(grid, GridIndex(grid, v, u)) \/ grid.oob
    THEN grid
    ELSE [grid EXCEPT !.outside = gv]

\* Mutant of clear_grid: the memset left out.
clear_grid_popmax_only(grid) == [grid EXCEPT !.popmax = 0]

\* memset(gridpop_buffer, 0, bufsize); popmax = 0.
clear_grid(grid) ==
    [grid EXCEPT !.gridpop = [i \in 0 .. grid.bufsize - 1 |-> 0], !.popmax = 0]

\* Mutant of bin_increment: the popmax update left out.
bin_increment_no_popmax(grid, v, u, gv) ==
    LET g0 == heap_word(grid, v, u, gv)
    IN  gridpop_write(g0, v, u, gridpop_read(g0, v, u) + 1)

\* gridpop[v][u]++ and the popmax update that follows it.
bin_increment(grid, v, u, gv) ==
    LET g0  == heap_word(grid, v, u, gv)
        new == gridpop_read(g0, v, u) + 1
        g1  == gridpop_write(g0, v, u, new)
    IN  [g1 EXCEPT !.popmax = IF new > g1.popmax THEN new ELSE g1.popmax]

\* The loop of draw_grid_border from row v on: the grid it leaves, whether it
\* called abort(), and whether a write went outside the buffer (stray).
RECURSIVE border_rows(_, _, _)
border_rows(grid, v, stray) ==
    IF v >= grid.vdiv
    THEN [grid |-> grid, aborted |-> FALSE, stray |-> stray]
    ELSE LET zwn == zgrid_to_world(grid, v) + (grid.zmax - grid.zmin)   \* zw * vdiv
             zwd == grid.vdiv
             ur0 == xyworld_to_grid(grid, grid.wmax * zwn, grid.zmax * zwd)
             ur  == IF ur0 >= grid.udiv THEN grid.udiv - 1 ELSE ur0
             g1  == gridpop_write(grid, v, ur, -2)
             ul  == xyworld_to_grid(grid, (-grid.wmax) * zwn, grid.zmax * zwd)
         IN  IF ul < 0 \/ ul >= grid.udiv
             THEN [grid |-> g1, aborted |-> TRUE,
                   stray |-> stray \/ ~InBuffer(grid, GridIndex(grid, v, ur))]
             ELSE border_rows(gridpop_write(g1, v, ul, -1), v + 1,
                              stray \/ ~InBuffer(grid, GridIndex(grid, v, ur)))

\* Mutant of draw_grid_border: the loop started at row 1.
draw_grid_border_from_row_1(grid) == border_rows(grid, 1, FALSE)

draw_grid_border(grid) == border_rows(grid, 0, FALSE)

\* -------------------------------------------------------------- rendering
charset == <<" ", ".", "-", "+", "%", "8", "/", "\\">>

\* Mutant of print_cell: the clamp to 5 left out.
print_cell_no_clamp(val, scale) ==
    IF val = -1 THEN 6 ELSE IF val = -2 THEN 7 ELSE CDiv(val * 20, scale)

\* The palette index print_cell selects for val under scale (scale # 0).
print_cell(val, scale) ==
    LET c0 == CDiv(val * 20, scale)
        c1 == IF c0 > 5 THEN 5 ELSE c0
    IN  IF val = -1 THEN 6 ELSE IF val = -2 THEN 7 ELSE c1

\* Mutant of print_scale: popmax passed as it is.
print_scale_popmax(grid) == grid.popmax

\* The scale print_grid passes to print_cell.
print_scale(grid) == IF grid.popmax # 0 THEN grid.popmax ELSE 1

\* The palette indices print_grid writes, line by line.
print_grid(grid, transpose) ==
    LET scale == print_scale(grid)
    IN  IF transpose
        THEN [u \in 1 .. grid.udiv |->
                [v \in 1 .. grid.vdiv |-> print_cell(gridpop_read(grid, v - 1, u - 1), scale)]]
        ELSE [v \in 1 .. grid.vdiv |->
                [u \in 1 .. grid.udiv |-> print_cell(gridpop_read(grid, v - 1, u - 1), scale)]]

\* ------------------------------------------------------------- terminal
\* A printer state: the static last_bold, last_fg, last_bg of set_bold,
\* set_fgcolor, set_bgcolor, the attributes the terminal really has (bold 0 or
\* 1, fg and bg as SGR codes, 39 and 49 the defaults), and out, the SGR codes
\* written since the last glyph.
NewTty ==
    [last_bold |-> -1, last_fg |-> -1, last_bg |-> -1,
     bold |-> 0, fg |-> 39, bg |-> 49, out |-> <<>>]

\* Mutant of set_bold: the test against last_bold left out.
set_bold_always(p, bold) ==
    LET b == IF bold # 0 THEN 1 ELSE 0
    IN  [p EXCEPT !.last_bold = b, !.bold = b, !.out = Append(@, IF b = 1 THEN 1 ELSE 22)]

\* set_bold: "\e[1m" or "\e[22m" when last_bold differs.
set_bold(p, bold) ==
    LET b == IF bold # 0 THEN 1 ELSE 0
    IN  IF p.last_bold # b
        THEN [p EXCEPT !.last_bold = b, !.bold = b,
                       !.out = Append(@, IF b = 1 THEN 1 ELSE 22)]
        ELSE p

\* set_fgcolor: "\e[%dm" with fg % 8 + 30 when last_fg differs.
set_fgcolor(p, fg) ==
    LET new_fg == (fg % 8) + 30
    IN  IF new_fg # p.last_fg
        THEN [p EXCEPT !.last_fg = new_fg, !.fg = new_fg, !.out = Append(@, new_fg)]
        ELSE p

\* set_bgcolor: "\e[%dm" with bg % 8 + 40 when last_bg differs.
set_bgcolor(p, bg) ==
    LET new_bg == (bg % 8) + 40
    IN  IF new_bg # p.last_bg
        THEN [p EXCEPT !.last_bg = new_bg, !.bg = new_bg, !.out = Append(@, new_bg)]
        ELSE p

\* The foreground set_color asks for: never the background without bold.
set_color_fg(bold, fgcolor, bgcolor) ==
    IF bold = 0 /\ bgcolor = fgcolor THEN (IF bgcolor = 0 THEN 7 ELSE 0) ELSE fgcolor

set_color(p, bold, fgcolor, bgcolor) ==
    set_bgcolor(set_fgcolor(set_bold(p, bold), set_color_fg(bold, fgcolor, bgcolor)),
                bgcolor)

\* reset_color: "\e[0;1;30m" resets the terminal, then bold and black; the
\* three caches are not touched.
reset_color(p) == [p EXCEPT !.bold = 1, !.fg = 30, !.bg = 49]

\* printf("\e[m\e[K") at the end of rendering: attributes off.
end_of_frame(p) == [p EXCEPT !.bold = 0, !.fg = 39, !.bg = 49]

\* fg[] and bold[] of print_cell; an index outside them reads a stack word.
palette_fg(c) == IF c \in 0 .. 7 THEN <<0, 0, 7, 7, 7, 7, 2, 2>>[c + 1] ELSE 0
palette_bold(c) == IF c \in 0 .. 7 THEN <<1, 1, 0, 0, 1, 1, 0, 0>>[c + 1] ELSE 0

\* The cells of a grid in the order print_grid writes them.
print_order(grid, transpose) ==
    IF transpose
    THEN [k \in 1 .. grid.bufsize |->
            gridpop_read(grid, (k - 1) % grid.vdiv, (k - 1) \div grid.vdiv)]
    ELSE [k \in 1 .. grid.bufsize |->
            gridpop_read(grid, (k - 1) \div grid.udiv, (k - 1) % grid.udiv)]

\* putchar_color for the cells vals[k ..]: for each glyph its palette index c,
\* the attributes the terminal has when it is written, and the SGR codes
\* written since the glyph before it.
RECURSIVE put_cells(_, _, _, _, _)
put_cells(p, vals, scale, k, cells) ==
    IF k > Len(vals)
    THEN [tty |-> p, cells |-> cells]
    ELSE LET c  == print_cell(vals[k], scale)
             p1 == set_color(p, palette_bold(c), palette_fg(c), 0)
         IN  put_cells([p1 EXCEPT !.out = <<>>], vals, scale, k + 1,
                       Append(cells, [c |-> c, bold |-> p1.bold, fg |-> p1.fg,
                                      bg |-> p1.bg, sgr |-> p1.out]))

\* The glyphs of print_grid on the printer state p.
print_glyphs(p, grid, transpose) ==
    put_cells(p, print_order(grid, transpose), print_scale(grid), 1, <<>>)

\* ----------------------------------------------------------------- frames
\* DPT(buf, x, y): buf[y * FREENECT_FRAME_W + x]; TLA+ sequences start at 1.
DPT(b, px, py) == b[py * FREENECT_FRAME_W + px + 1]

\* Mutant of out_of_range_code: the sentinel taken one too high.
out_of_range_code_2048(code) == code = 2048

\* The test of the binning loop for "no return".
out_of_range_code(code) == code = 2047

PixelX(i) == (i - 1) % FREENECT_FRAME_W
PixelY(i) == (i - 1) \div FREENECT_FRAME_W

\* Every pixel without a return.
AllOutOfRange == [i \in 1 .. FREENECT_FRAME_PIX |-> 2047]
\* Every pixel at depth_lut[1000] = 3.78 m.
AllFar == [i \in 1 .. FREENECT_FRAME_PIX |-> 1000]
\* No return, 0.71 m, 2.39 m, 3.78 m and -0.35 m (a code past the pole of the
\* tangent) side by side.
Mixed ==
    [i \in 1 .. FREENECT_FRAME_PIX |->
        <<2047, 600, 946, 1000, 2046>>[((PixelX(i) + 2 * PixelY(i)) % 5) + 1]]

Frames == {AllOutOfRange, AllFar, Mixed}

\* One return, at depth_lut[976] = 3.00 m in the centre column of the first
\* row, and no return anywhere else.
Single ==
    [i \in 1 .. FREENECT_FRAME_PIX |->
        IF PixelX(i) = CDiv(FREENECT_FRAME_W, 2) /\ PixelY(i) = 0 THEN 976 ELSE 2047]

ConeFrames == {Single, Mixed}

\* ---------------------------------------------------------------- options
\* An option is <<>> when absent and <<n>> when given with argument n
\* (-y, -Y in pixels; -z, -Z in centimetres).
Opt_y == {<<>>, <<4>>}
Opt_Y == {<<>>, <<2>>}
Opt_z == {<<>>}
Opt_Z == {<<>>, <<depth_lut(1000)>>}
Opt_hv == {"SHOW_BOTH", "SHOW_HORIZ", "SHOW_VERT"}
\* -z -9 and -z -30: atof accepts a negative near plane.
ConeOpt_z == {<<>>, <<-900>>, <<-3000>>}

\* case 'y' and case 'Y' of main: atoi, then clamped into 0 .. FREENECT_FRAME_H - 1.
opt_y(n) == IF n < 0 THEN 0 ELSE IF n >= FREENECT_FRAME_H THEN FREENECT_FRAME_H - 1 ELSE n
opt_Y(n) == IF n < 0 THEN 0 ELSE IF n >= FREENECT_FRAME_H THEN FREENECT_FRAME_H - 1 ELSE n

\* init_data, the options, the wmax of both grids and init_grids.
init_data(oy, oY, oz, oZ, om) ==
    LET zmin == IF oz = <<>> THEN 0 ELSE oz[1]
        zmax == IF oZ = <<>> THEN 600 ELSE oZ[1]
    IN  [disp_mode    |-> om,
         out_of_range |-> 0,
         done         |-> 0,
         xgrid        |-> alloc_grid(XGRID_UDIV, XGRID_VDIV, zmin, zmax, xworld(0, zmax)),
         ygrid        |-> alloc_grid(YGRID_UDIV, YGRID_VDIV, zmin, zmax,
                                     yworld(FREENECT_FRAME_H - 1, zmax)),
         ytop         |-> IF oy = <<>> THEN 0 ELSE opt_y(oy[1]),
         ybot         |-> IF oY = <<>> THEN FREENECT_FRAME_H ELSE opt_Y(oY[1]),
         frame        |-> 0]

\* ------------------------------------------------------------------ state
VARIABLES
    data,       \* struct kinradar_data
    buf,        \* the frame depth() is working on (the last one, between ticks)
    oor_total,  \* depth(): out of range count
    x, y,       \* depth(): position of the binning loop
    idx,        \* depth(): the u and v of the last increment of each grid
    lut_idx,    \* the index of the last read of depth_lut, -1 before the first
    pc,         \* where main() and depth() stand
    screen,     \* what print_grid last wrote for each grid
    printed,    \* the grids printed in the current tick
    seen,       \* history: the frames processed and what each tick made of them
    last_oor,   \* main(): last_oor
    led,        \* the LED state last commanded
    handler,    \* the disposition of SIGINT / SIGTERM
    word,       \* depth(): the done bit of the bit-field word it has loaded
    tty         \* the caches of set_bold / set_fgcolor / set_bgcolor and the terminal

vars == <<data, buf, oor_total, x, y, idx, lut_idx, pc, screen, printed, seen,
          last_oor, led, handler, word, tty>>

NoIdx == [xu |-> 0, xv |-> 0, yu |-> 0, yv |-> 0, set |-> FALSE]

TickPcs == {"clear", "bin", "border_x", "border_y", "print_x", "print_y", "flag",
            "flag_store"}
InTick == pc \in TickPcs
Stopped == pc \in {"exited", "aborted", "crashed", "sigfpe"}

\* main() up to its loop, for one command line.
Start(oy, oY, oz, oZ, om) ==
    /\ data = init_data(oy, oY, oz, oZ, om)
    /\ buf = AllOutOfRange
    /\ oor_total = 0
    /\ x = 0
    /\ y = 0
    /\ idx = NoIdx
    /\ lut_idx = -1
    /\ pc = "loop"
    /\ screen = [xgrid |-> [scale |-> 1, rows |-> <<>>, cells |-> <<>>],
                 ygrid |-> [scale |-> 1, rows |-> <<>>, cells |-> <<>>]]
    /\ printed = {}
    /\ seen = {}
    /\ last_oor = 0
    /\ led = "LED_GREEN"
    /\ handler = "intr"
    /\ word = 0
    /\ tty = NewTty

Init ==
    \E oy \in Opt_y, oY \in Opt_Y, oz \in Opt_z, oZ \in Opt_Z, om \in Opt_hv :
        Start(oy, oY, oz, oZ, om)

\* The command lines with a near plane behind the sensor.
InitCone ==
    \E oz \in ConeOpt_z, oZ \in Opt_Z : Start(<<>>, <<>>, oz, oZ, "SHOW_BOTH")

\* -------------------------------------------------------------- main loop
\* while(!data.done)
MainLoop ==
    /\ pc = "loop"
    /\ pc' = IF data.done = 1 THEN "teardown" ELSE "events"
    /\ UNCHANGED <<data, buf, oor_total, x, y, idx, lut_idx, screen, printed, seen,
                   last_oor, led, handler, word, tty>>

\* freenect_process_events calls depth() with a frame: the entry of depth().
Deliver(F) ==
    /\ pc = "events"
    /\ data.frame < MaxFrames
    /\ \E f \in F : buf' = f
    /\ oor_total' = 0
    /\ idx' = NoIdx
    /\ printed' = {}
    /\ pc' = "clear"
    /\ UNCHANGED <<data, x, y, lut_idx, screen, seen, last_oor, led, handler, word, tty>>

DeliverFrame == Deliver(Frames)
DeliverConeFrame == Deliver(ConeFrames)

\* freenect_process_events returns 0 or LIBUSB_ERROR_INTERRUPTED without a frame.
NoFrame ==
    /\ pc = "events"
    /\ pc' = "led"
    /\ UNCHANGED <<data, buf, oor_total, x, y, idx, lut_idx, screen, printed, seen,
                   last_oor, led, handler, word, tty>>

\* freenect_process_events returns another error: break.
EventsError ==
    /\ pc = "events"
    /\ pc' = "teardown"
    /\ UNCHANGED <<data, buf, oor_total, x, y, idx, lut_idx, screen, printed, seen,
                   last_oor, led, handler, word, tty>>

\* Mutant of LedUpdate: last_oor = data.out_of_range left out.
LedUpdate_keeps_last_oor ==
    /\ pc = "led"
    /\ IF last_oor # data.out_of_range
       THEN led' = IF data.out_of_range = 1 THEN "LED_BLINK_RED_YELLOW" ELSE "LED_GREEN"
       ELSE UNCHANGED led
    /\ pc' = "loop"
    /\ UNCHANGED <<data, buf, oor_total, x, y, idx, lut_idx, screen, printed, seen, handler,
                   word, tty, last_oor>>

\* if(last_oor != data.out_of_range) { freenect_set_led(...); last_oor = ... }
LedUpdate ==
    /\ pc = "led"
    /\ IF last_oor # data.out_of_range
       THEN /\ led' = IF data.out_of_range = 1 THEN "LED_BLINK_RED_YELLOW" ELSE "LED_GREEN"
            /\ last_oor' = data.out_of_range
       ELSE UNCHANGED <<led, last_oor>>
    /\ pc' = "loop"
    /\ UNCHANGED <<data, buf, oor_total, x, y, idx, lut_idx, screen, printed, seen, handler,
                   word, tty>>

\* freenect_stop_depth, LED off, close, shutdown, return 0.
Teardown ==
    /\ pc = "teardown"
    /\ led' = "LED_OFF"
    /\ pc' = "exited"
    /\ UNCHANGED <<data, buf, oor_total, x, y, idx, lut_idx, screen, printed, seen,
                   last_oor, handler, word, tty>>

\* SIGINT or SIGTERM: intr() the first time, exit() from then on.
Signal ==
    /\ ~Stopped
    /\ IF handler = "intr"
       THEN /\ data' = [data EXCEPT !.done = 1]
            /\ handler' = "exit"
            /\ pc' = pc
       ELSE /\ pc' = "exited"
            /\ UNCHANGED <<data, handler>>
    /\ UNCHANGED <<buf, oor_total, x, y, idx, lut_idx, screen, printed, seen, last_oor, led,
                   word, tty>>

\* ---------------------------------------------------------------- depth()
\* clear_grid(&data->xgrid); clear_grid(&data->ygrid); and the loop's start.
ClearGrids ==
    /\ pc = "clear"
    /\ data' = [data EXCEPT !.xgrid = clear_grid(@), !.ygrid = clear_grid(@)]
    /\ x' = 0
    /\ y' = data.ytop
    /\ pc' = "bin"
    /\ UNCHANGED <<buf, oor_total, idx, lut_idx, screen, printed, seen, last_oor, led, handler, word, tty>>

\* x++ of the inner loop, y++ of the outer one.
NextX == IF x + 1 < FREENECT_FRAME_W THEN x + 1 ELSE 0
NextY == IF x + 1 < FREENECT_FRAME_W THEN y ELSE y + 1

\* One pass of the body of the binning loop, for the pixel (x, y).
BinPixel ==
    /\ pc = "bin"
    /\ y < data.ybot
    /\ LET code == DPT(buf, x, y)
           zw   == depth_lut(code)
       IN  IF out_of_range_code(code)
           THEN /\ oor_total' = oor_total + 1
                /\ x' = NextX /\ y' = NextY /\ pc' = "bin"
                /\ UNCHANGED <<data, idx, lut_idx>>
           ELSE IF zw < data.xgrid.zmin \/ zw > data.xgrid.zmax
           THEN /\ lut_idx' = code
                /\ x' = NextX /\ y' = NextY /\ pc' = "bin"
                /\ UNCHANGED <<data, idx, oor_total>>
           ELSE LET xw == xworld(x, zw)
                    yw == yworld(y, zw)
                    xu == xyworld_to_grid(data.xgrid, xw, 1)
                    xv == zworld_to_grid(data.xgrid, zw, 1)
                    yu == xyworld_to_grid(data.ygrid, yw, 1)
                    yv == zworld_to_grid(data.ygrid, zw, 1)
                    xstray == ~InBuffer(data.xgrid, GridIndex(data.xgrid, xv, xu))
                    ystray == ~InBuffer(data.ygrid, GridIndex(data.ygrid, yv, yu))
                IN  \E gv \in Garbage, fault \in BOOLEAN :
                        /\ lut_idx' = code
                        /\ UNCHANGED oor_total
                        /\ IF fault /\ xstray
                           THEN \* the access outside the overhead grid's buffer faults
                                /\ idx' = [xu |-> xu, xv |-> xv, yu |-> idx.yu, yv |-> idx.yv,
                                           set |-> TRUE]
                                /\ pc' = "crashed"
                                /\ UNCHANGED <<data, x, y>>
                           ELSE IF fault /\ ystray
                           THEN \* the access outside the side grid's buffer faults
                                /\ idx' = [xu |-> xu, xv |-> xv, yu |-> yu, yv |-> yv,
                                           set |-> TRUE]
                                /\ data' = [data EXCEPT !.xgrid = bin_increment(@, xv, xu, gv)]
                                /\ pc' = "crashed"
                                /\ UNCHANGED <<x, y>>
                           ELSE /\ idx' = [xu |-> xu, xv |-> xv, yu |-> yu, yv |-> yv,
                                           set |-> TRUE]
                                /\ data' = [data EXCEPT
                                              !.xgrid = bin_increment(@, xv, xu, gv),
                                              !.ygrid = bin_increment(@, yv, yu, gv)]
                                /\ x' = NextX /\ y' = NextY /\ pc' = "bin"
    /\ UNCHANGED <<buf, screen, printed, seen, last_oor, led, handler, word, tty>>

\* Mutant of BinEnd: the loop left before its last row.
BinEnd_any_row ==
    /\ pc = "bin"
    /\ pc' = "border_x"
    /\ UNCHANGED <<data, buf, oor_total, x, y, idx, lut_idx, screen, printed, seen,
                   last_oor, led, handler, word, tty>>

\* y < data->ybot fails: the binning loop is over.
BinEnd ==
    /\ pc = "bin"
    /\ y >= data.ybot
    /\ pc' = "border_x"
    /\ UNCHANGED <<data, buf, oor_total, x, y, idx, lut_idx, screen, printed, seen,
                   last_oor, led, handler, word, tty>>

GridOf(d, g) == IF g = "xgrid" THEN d.xgrid ELSE d.ygrid
WithGrid(d, g, grid) == IF g = "xgrid" THEN [d EXCEPT !.xgrid = grid] ELSE [d EXCEPT !.ygrid = grid]

\* draw_grid_border(&data->xgrid) at "border_x", (&data->ygrid) at "border_y".
DrawBorder(g, at, next) ==
    /\ pc = at
    /\ LET r == draw_grid_border(GridOf(data, g))
       IN  \E fault \in BOOLEAN :
              /\ data' = WithGrid(data, g, r.grid)
              /\ pc' = IF r.aborted THEN "aborted"
                       ELSE IF fault /\ r.stray THEN "crashed"
                       ELSE next
    /\ UNCHANGED <<buf, oor_total, x, y, idx, lut_idx, screen, printed, seen,
                   last_oor, led, handler, word, tty>>

DrawBorderX == DrawBorder("xgrid", "border_x", "border_y")
DrawBorderY == DrawBorder("ygrid", "border_y", "print_x")

\* The two print_grid calls of depth(), each under its display-mode test;
\* reset_color() comes before the first and printf("\e[m\e[K") after the second.
PrintGrid(g, at, next, modes, transpose, first, last) ==
    /\ pc = at
    /\ LET p0 == IF first THEN reset_color(tty) ELSE tty
           r  == print_glyphs(p0, GridOf(data, g), transpose)
       IN  IF data.disp_mode \notin modes
           THEN /\ pc' = next
                /\ tty' = (IF last THEN end_of_frame(p0) ELSE p0)
                /\ UNCHANGED <<screen, printed>>
           ELSE IF print_scale(GridOf(data, g)) = 0
           THEN \* val * 20 / scale of print_cell divides by zero: SIGFPE
                /\ pc' = "sigfpe"
                /\ tty' = p0
                /\ UNCHANGED <<screen, printed>>
           ELSE /\ screen' = [screen EXCEPT ![g] =
                                [scale |-> print_scale(GridOf(data, g)),
                                 rows  |-> print_grid(GridOf(data, g), transpose),
                                 cells |-> r.cells]]
                /\ tty' = (IF last THEN end_of_frame(r.tty) ELSE r.tty)
                /\ printed' = printed \cup {g}
                /\ pc' = next
    /\ UNCHANGED <<data, buf, oor_total, x, y, idx, lut_idx, seen, last_oor, led, handler,
                   word>>

\* Mutant of PrintX: the display-mode test left out.
PrintX_every_mode ==
    PrintGrid("xgrid", "print_x", "print_y", {"SHOW_BOTH", "SHOW_HORIZ", "SHOW_VERT"}, FALSE,
              TRUE, FALSE)

PrintX ==
    PrintGrid("xgrid", "print_x", "print_y", {"SHOW_BOTH", "SHOW_HORIZ"}, FALSE, TRUE, FALSE)
PrintY ==
    PrintGrid("ygrid", "print_y", "flag", {"SHOW_BOTH", "SHOW_VERT"}, TRUE, FALSE, TRUE)

\* What a tick leaves behind: both grids, both popmax and the count.
TickResult(d, n) ==
    [xpop |-> d.xgrid.gridpop, xpopmax |-> d.xgrid.popmax,
     ypop |-> d.ygrid.gridpop, ypopmax |-> d.ygrid.popmax,
     oor  |-> n]

\* Mutant of alert: the 35 / 100 left out.
alert_whole_frame(n) == IF n > FREENECT_FRAME_PIX THEN 1 ELSE 0

\* oor_total > FREENECT_FRAME_PIX * 35 / 100
alert(n) == IF n > CDiv(FREENECT_FRAME_PIX * 35, 100) THEN 1 ELSE 0

\* data->out_of_range = ...: out_of_range:1 and done:1 are bit-fields of one
\* word, so the assignment reads the word, changes one bit and writes the word
\* back.  This step is the read.
LoadFlagWord ==
    /\ pc = "flag"
    /\ word' = data.done
    /\ pc' = "flag_store"
    /\ UNCHANGED <<data, buf, oor_total, x, y, idx, lut_idx, screen, printed, seen,
                   last_oor, led, handler, tty>>

\* Mutant of SetFlag: data->frame++ left out.
SetFlag_no_frame_increment ==
    /\ pc = "flag_store"
    /\ \E d \in {word, data.done} :
          data' = [data EXCEPT !.out_of_range = alert(oor_total), !.done = d]
    /\ seen' = seen \cup {<<buf, TickResult(data, oor_total)>>}
    /\ word' = 0
    /\ pc' = "led"
    /\ UNCHANGED <<buf, oor_total, x, y, idx, lut_idx, screen, printed, last_oor, led, handler,
                   tty>>

\* The write of data->out_of_range = ...; then data->frame++; and depth()
\* returns.  The done bit written back is the one loaded when the build reads
\* and writes the word in separate instructions, and the one in memory when it
\* changes the bit in place: done is no sig_atomic_t, so intr() running between
\* the two leaves either.
SetFlag ==
    /\ pc = "flag_store"
    /\ \E d \in {word, data.done} :
          data' = [data EXCEPT !.out_of_range = alert(oor_total), !.done = d,
                               !.frame = @ + 1]
    /\ seen' = seen \cup {<<buf, TickResult(data, oor_total)>>}
    /\ word' = 0
    /\ pc' = "led"
    /\ UNCHANGED <<buf, oor_total, x, y, idx, lut_idx, screen, printed, last_oor, led, handler,
                   tty>>

Next ==
    \/ MainLoop \/ DeliverFrame \/ NoFrame \/ EventsError \/ LedUpdate \/ Teardown
    \/ Signal
    \/ ClearGrids \/ BinPixel \/ BinEnd \/ DrawBorderX \/ DrawBorderY
    \/ PrintX \/ PrintY \/ LoadFlagWord \/ SetFlag

Spec == Init /\ [][Next]_vars

\* The same program on the command lines of InitCone and the frames of
\* ConeFrames.
NextCone ==
    \/ MainLoop \/ DeliverConeFrame \/ NoFrame \/ EventsError \/ LedUpdate \/ Teardown
    \/ Signal
    \/ ClearGrids \/ BinPixel \/ BinEnd \/ DrawBorderX \/ DrawBorderY
    \/ PrintX \/ PrintY \/ LoadFlagWord \/ SetFlag

SpecCone == InitCone /\ [][NextCone]_vars

\* --------------------------------------------------- single-cone prototype
\* The first program of part_000: one grid, gridpop[vdiv][udiv], a local
\* array of depth(), and popmax a local beside it; both are kept in the grid
\* record data.xgrid, whose word "outside" is the stack word behind the array.
\* done, out_of_range and frame are separate ints of that program, and its
\* main() runs the loop of MainLoop, NoFrame, EventsError, LedUpdate, Teardown
\* and Signal.

\* The statics after main's options: zmin = 0.5, zmax = 5.0 or -Z,
\* xworldmax = xworld(0, zmax).
proto_statics(oy, oY, oZ) ==
    LET zmax == IF oZ = <<>> THEN 500 ELSE oZ[1]
    IN  [out_of_range |-> 0,
         done         |-> 0,
         frame        |-> 0,
         ytop         |-> IF oy = <<>> THEN 0 ELSE opt_y(oy[1]),
         ybot         |-> IF oY = <<>> THEN FREENECT_FRAME_H ELSE opt_Y(oY[1]),
         xgrid        |-> alloc_grid(XGRID_UDIV, XGRID_VDIV, 50, zmax, xworld(0, zmax))]

\* idx of the prototype: the u and v of the last increment, and err, whether
\* the range check wrote its message in this tick.
ProtoNoIdx == [xu |-> 0, xv |-> 0, yu |-> 0, yv |-> 0, set |-> FALSE, err |-> FALSE]

InitProto ==
    \E oy \in Opt_y, oY \in Opt_Y, oZ \in Opt_Z :
        /\ data = proto_statics(oy, oY, oZ)
        /\ buf = AllOutOfRange
        /\ oor_total = 0
        /\ x = 0
        /\ y = 0
        /\ idx = ProtoNoIdx
        /\ lut_idx = -1
        /\ pc = "loop"
        /\ screen = [xgrid |-> [scale |-> 1, rows |-> <<>>, cells |-> <<>>]]
        /\ printed = {}
        /\ seen = {}
        /\ last_oor = 0
        /\ led = "LED_GREEN"
        /\ handler = "intr"
        /\ word = 0
        /\ tty = NewTty

\* The entry of the prototype's depth(): a fresh gridpop between the two
\* barriers, memset, popmax = 0, and the start of the loop.
ProtoClear ==
    /\ pc = "clear"
    /\ data' = [data EXCEPT !.xgrid = alloc_grid(@.udiv, @.vdiv, @.zmin, @.zmax, @.wmax)]
    /\ idx' = ProtoNoIdx
    /\ x' = 0
    /\ y' = data.ytop
    /\ pc' = "bin"
    /\ UNCHANGED <<buf, oor_total, lut_idx, screen, printed, seen, last_oor, led, handler,
                   word, tty>>

\* if(u < 0 || u >= udiv || v < 0 || v >= vdiv)
proto_range_check(grid, v, u) == u < 0 \/ u >= grid.udiv \/ v < 0 \/ v >= grid.vdiv

\* One pass of the body of the prototype's loop, for the pixel (x, y): the
\* range check writes its messages and sets done, and the statement after it
\* is gridpop[v][u]++ whatever the check found.
ProtoBinPixel ==
    /\ pc = "bin"
    /\ y < data.ybot
    /\ LET code == DPT(buf, x, y)
           zw   == depth_lut(code)
       IN  IF out_of_range_code(code)
           THEN /\ oor_total' = oor_total + 1
                /\ UNCHANGED <<data, idx, lut_idx>>
           ELSE IF zw < data.xgrid.zmin \/ zw > data.xgrid.zmax
           THEN /\ lut_idx' = code
                /\ UNCHANGED <<data, idx, oor_total>>
           ELSE LET u   == xyworld_to_grid(data.xgrid, xworld(x, zw), 1)
                    v   == zworld_to_grid(data.xgrid, zw, 1)
                    bad == proto_range_check(data.xgrid, v, u)
                IN  \E gv \in Garbage :
                        /\ lut_idx' = code
                        /\ idx' = [xu |-> u, xv |-> v, yu |-> 0, yv |-> 0, set |-> TRUE,
                                   err |-> idx.err \/ bad]
                        /\ data' = [data EXCEPT !.done = IF bad THEN 1 ELSE @,
                                                !.xgrid = bin_increment(@, v, u, gv)]
                        /\ UNCHANGED oor_total
    /\ x' = NextX
    /\ y' = NextY
    /\ pc' = "bin"
    /\ UNCHANGED <<buf, screen, printed, seen, last_oor, led, handler, word, tty>>

\* The border loop of the prototype from row v on: -1 where the ray of pixel
\* column 0 crosses the row, then -2 for column FREENECT_FRAME_W - 1.
RECURSIVE proto_border(_, _)
proto_border(grid, v) ==
    IF v >= grid.vdiv
    THEN grid
    ELSE LET zwn == zgrid_to_world(grid, v)     \* z * vdiv
             zwd == grid.vdiv
             u0  == xyworld_to_grid(grid, xworld(0, zwn), zwd)
             u1  == xyworld_to_grid(grid, xworld(FREENECT_FRAME_W - 1, zwn), zwd)
             vz  == zworld_to_grid(grid, zwn, zwd)
         IN  proto_border(gridpop_write(gridpop_write(grid, vz, u0, -1), vz, u1, -2), v + 1)

ProtoBorder ==
    /\ pc = "border_x"
    /\ data' = [data EXCEPT !.xgrid = proto_border(@, 0)]
    /\ pc' = "print_x"
    /\ UNCHANGED <<buf, oor_total, x, y, idx, lut_idx, screen, printed, seen, last_oor, led,
                   handler, word, tty>>

\* if(popmax) { ... putchar(" .-+%8/\\"[c]) ... }
ProtoPrint ==
    /\ pc = "print_x"
    /\ IF data.xgrid.popmax # 0
       THEN /\ screen' = [screen EXCEPT !.xgrid =
                            [scale |-> data.xgrid.popmax,
                             rows  |-> [v \in 1 .. data.xgrid.vdiv |->
                                          [u \in 1 .. data.xgrid.udiv |->
                                             print_cell(gridpop_read(data.xgrid, v - 1, u - 1),
                                                        data.xgrid.popmax)]],
                             cells |-> <<>>]]
            /\ printed' = printed \cup {"xgrid"}
       ELSE UNCHANGED <<screen, printed>>
    /\ pc' = "flag"
    /\ UNCHANGED <<data, buf, oor_total, x, y, idx, lut_idx, seen, last_oor, led, handler,
                   word, tty>>

\* out_of_range = ...; frame++; and the two barrier tests: a write behind the
\* array may have changed a barrier.
ProtoFlag ==
    /\ pc = "flag"
    /\ \E smashed \in (IF data.xgrid.oob THEN BOOLEAN ELSE {FALSE}) :
          data' = [data EXCEPT !.out_of_range = alert(oor_total),
                               !.frame = @ + 1,
                               !.done = IF smashed THEN 1 ELSE @]
    /\ pc' = "led"
    /\ UNCHANGED <<buf, oor_total, x, y, idx, lut_idx, screen, printed, seen, last_oor, led,
                   handler, word, tty>>

NextProto ==
    \/ MainLoop \/ DeliverFrame \/ NoFrame \/ EventsError \/ LedUpdate \/ Teardown
    \/ Signal
    \/ ProtoClear \/ ProtoBinPixel \/ BinEnd \/ ProtoBorder \/ ProtoPrint \/ ProtoFlag

SpecProto == InitProto /\ [][NextProto]_vars

\* ----------------------------------------------------- dual-view prototype
\* The first program of part_001: xgridpop[vdiv][udiv] and ygridpop[vdiv][udiv],
\* local arrays of depth(), with xpopmax and ypopmax beside them; they are kept
\* in the grid records data.xgrid and data.ygrid.  Its main() runs the loop of
\* MainLoop, NoFrame, EventsError, LedUpdate, Teardown and Signal.

\* The statics after main's options: xworldmax = xworld(0, zmax) and
\* yworldmax = yworld(0, zmax).
dual_statics(oy, oY, oZ) ==
    LET zmax == IF oZ = <<>> THEN 500 ELSE oZ[1]
    IN  [out_of_range |-> 0,
         done         |-> 0,
         frame        |-> 0,
         ytop         |-> IF oy = <<>> THEN 0 ELSE opt_y(oy[1]),
         ybot         |-> IF oY = <<>> THEN FREENECT_FRAME_H ELSE opt_Y(oY[1]),
         xgrid        |-> alloc_grid(XGRID_UDIV, XGRID_VDIV, 50, zmax, xworld(0, zmax)),
         ygrid        |-> alloc_grid(XGRID_UDIV, XGRID_VDIV, 50, zmax, yworld(0, zmax))]

DualFrames == Frames \cup {Single}

InitDual ==
    \E oy \in Opt_y, oY \in Opt_Y, oZ \in Opt_Z :
        /\ data = dual_statics(oy, oY, oZ)
        /\ buf = AllOutOfRange
        /\ oor_total = 0
        /\ x = 0
        /\ y = 0
        /\ idx = NoIdx
        /\ lut_idx = -1
        /\ pc = "loop"
        /\ screen = [xgrid |-> [scale |-> 1, rows |-> <<>>, cells |-> <<>>],
                     ygrid |-> [scale |-> 1, rows |-> <<>>, cells |-> <<>>]]
        /\ printed = {}
        /\ seen = {}
        /\ last_oor = 0
        /\ led = "LED_GREEN"
        /\ handler = "intr"
        /\ word = 0
        /\ tty = NewTty

DeliverDualFrame == Deliver(DualFrames)

\* The entry of the dual-view depth(): fresh arrays, the two memsets,
\* xpopmax = ypopmax = 0, and the start of the loop.
DualClear ==
    /\ pc = "clear"
    /\ data' = [data EXCEPT
                  !.xgrid = alloc_grid(@.udiv, @.vdiv, @.zmin, @.zmax, @.wmax),
                  !.ygrid = alloc_grid(@.udiv, @.vdiv, @.zmin, @.zmax, @.wmax)]
    /\ x' = 0
    /\ y' = data.ytop
    /\ pc' = "bin"
    /\ UNCHANGED <<buf, oor_total, idx, lut_idx, screen, printed, seen, last_oor, led,
                   handler, word, tty>>

\* One pass of the body of the dual-view loop, for the pixel (x, y): both
\* increments, each with its popmax update; the two range tests between them
\* only write a message.
DualBinPixel ==
    /\ pc = "bin"
    /\ y < data.ybot
    /\ LET code == DPT(buf, x, y)
           zw   == depth_lut(code)
       IN  IF out_of_range_code(code)
           THEN /\ oor_total' = oor_total + 1
                /\ UNCHANGED <<data, idx, lut_idx>>
           ELSE IF zw < data.xgrid.zmin \/ zw > data.xgrid.zmax
           THEN /\ lut_idx' = code
                /\ UNCHANGED <<data, idx, oor_total>>
           ELSE LET u == xyworld_to_grid(data.xgrid, xworld(x, zw), 1)
                    w == xyworld_to_grid(data.ygrid, yworld(y, zw), 1)
                    v == zworld_to_grid(data.xgrid, zw, 1)
                IN  \E gv \in Garbage :
                        /\ lut_idx' = code
                        /\ idx' = [xu |-> u, xv |-> v, yu |-> w, yv |-> v, set |-> TRUE]
                        /\ data' = [data EXCEPT !.xgrid = bin_increment(@, v, u, gv),
                                                !.ygrid = bin_increment(@, v, w, gv)]
                        /\ UNCHANGED oor_total
    /\ x' = NextX
    /\ y' = NextY
    /\ pc' = "bin"
    /\ UNCHANGED <<buf, screen, printed, seen, last_oor, led, handler, word, tty>>

\* The border loop of the dual-view depth() from row v on, for one grid: the
\* sentinel first at the index of pixel p0, last at the index of pixel p1.
RECURSIVE dual_border(_, _, _, _, _, _)
dual_border(grid, v, w0, first, w1, last) ==
    IF v >= grid.vdiv
    THEN grid
    ELSE LET zwn == zgrid_to_world(grid, v)     \* z * vdiv
             zwd == grid.vdiv
             vz  == zworld_to_grid(grid, zwn, zwd)
             u0  == xyworld_to_grid(grid, w0 * zwn, zwd)
             u1  == xyworld_to_grid(grid, w1 * zwn, zwd)
         IN  dual_border(gridpop_write(gridpop_write(grid, vz, u0, first), vz, u1, last),
                         v + 1, w0, first, w1, last)

DualBorder ==
    /\ pc = "border_x"
    /\ data' = [data EXCEPT
                  !.xgrid = dual_border(@, 0, xworld(0, 1), -2,
                                        xworld(FREENECT_FRAME_W - 1, 1), -1),
                  !.ygrid = dual_border(@, 0, yworld(0, 1), -1,
                                        yworld(FREENECT_FRAME_H - 1, 1), -2)]
    /\ pc' = "print_x"
    /\ UNCHANGED <<buf, oor_total, x, y, idx, lut_idx, screen, printed, seen, last_oor, led,
                   handler, word, tty>>

\* The palette indices the dual-view print_grid writes: every second row of
\* the grid, or transposed every second column from the last one down.
dual_print_grid(grid, scale, transpose) ==
    IF transpose
    THEN [k \in 1 .. CDiv(grid.udiv + 1, 2) |->
            [v \in 1 .. grid.vdiv |->
                print_cell(gridpop_read(grid, v - 1, grid.udiv - 1 - 2 * (k - 1)), scale)]]
    ELSE [k \in 1 .. CDiv(grid.vdiv + 1, 2) |->
            [u \in 1 .. grid.udiv |->
                print_cell(gridpop_read(grid, 2 * (k - 1), u - 1), scale)]]

\* The scale of the second print_grid call: ypopmax / 2.
dual_side_scale(ypopmax) == CDiv(ypopmax, 2)

\* if(xpopmax) { print_grid(print_map, xpopmax, -1, 2, 0); ...
\* print_grid(print_map, ypopmax / 2, udiv, 2, 1); }
DualPrint ==
    /\ pc = "print_x"
    /\ IF data.xgrid.popmax = 0
       THEN /\ pc' = "flag"
            /\ UNCHANGED <<screen, printed>>
       ELSE IF dual_side_scale(data.ygrid.popmax) = 0
       THEN \* val * 20 / scale of print_cell divides by zero: SIGFPE
            /\ screen' = [screen EXCEPT !.xgrid =
                            [scale |-> data.xgrid.popmax,
                             rows  |-> dual_print_grid(data.xgrid, data.xgrid.popmax, FALSE),
                             cells |-> <<>>]]
            /\ printed' = printed \cup {"xgrid"}
            /\ pc' = "sigfpe"
       ELSE /\ screen' = [xgrid |->
                            [scale |-> data.xgrid.popmax,
                             rows  |-> dual_print_grid(data.xgrid, data.xgrid.popmax, FALSE),
                             cells |-> <<>>],
                          ygrid |->
                            [scale |-> dual_side_scale(data.ygrid.popmax),
                             rows  |-> dual_print_grid(data.ygrid,
                                           dual_side_scale(data.ygrid.popmax), TRUE),
                             cells |-> <<>>]]
            /\ printed' = printed \cup {"xgrid", "ygrid"}
            /\ pc' = "flag"
    /\ UNCHANGED <<data, buf, oor_total, x, y, idx, lut_idx, seen, last_oor, led, handler,
                   word, tty>>

\* out_of_range = ...; frame++; and depth() returns.
DualFlag ==
    /\ pc = "flag"
    /\ data' = [data EXCEPT !.out_of_range = alert(oor_total), !.frame = @ + 1]
    /\ pc' = "led"
    /\ UNCHANGED <<buf, oor_total, x, y, idx, lut_idx, screen, printed, seen, last_oor, led,
                   handler, word, tty>>

NextDual ==
    \/ MainLoop \/ DeliverDualFrame \/ NoFrame \/ EventsError \/ LedUpdate \/ Teardown
    \/ Signal
    \/ DualClear \/ DualBinPixel \/ BinEnd \/ DualBorder \/ DualPrint \/ DualFlag

SpecDual == InitDual /\ [][NextDual]_vars

\* -------------------------------------------------- grid statistics program
\* src/kincone.c: depth() sorts the pixels of a frame into divisions x
\* divisions grid boxes and prints statistics per box.  Its arrays are locals
\* of depth(); they are kept in data, a box [gridy][gridx] at the index
\* gridy * divisions + gridx, and small_histogram flat, bin b of box c at
\* c * SM_HIST_SIZE + b.  main() runs the loop of MainLoop, NoFrame,
\* EventsError, LedUpdate, Teardown and Signal.
SM_HIST_SIZE == 64

\* static int divisions = 6, scaled with the frame.
divisions == 2

PX_TO_GRIDX(px) == CDiv(px * divisions, FREENECT_FRAME_W)
PX_TO_GRIDY(py) == CDiv(py * divisions, FREENECT_FRAME_H)

Boxes == 0 .. divisions * divisions - 1
BoxIndex(gridy, gridx) == gridy * divisions + gridx

\* -s, -h, -a
Opt_sha == {"STATS", "HISTOGRAM", "ASCII"}

\* The locals of depth() after its memsets.
stats_arrays ==
    [small_histogram |-> [k \in 0 .. divisions * divisions * SM_HIST_SIZE - 1 |-> 0],
     total     |-> [c \in Boxes |-> 0],
     min       |-> [c \in Boxes |-> 65535],
     max       |-> [c \in Boxes |-> 0],
     median    |-> [c \in Boxes |-> 0],
     avg       |-> [c \in Boxes |-> [n |-> 0, d |-> 1]],
     oor_count |-> [c \in Boxes |-> 0],
     div_pix   |-> [c \in Boxes |-> 0],
     oob       |-> FALSE]

InitStats ==
    \E om \in Opt_sha :
        /\ data = [out_of_range |-> 0, done |-> 0, frame |-> 0, disp_mode |-> om,
                   st |-> stats_arrays]
        /\ buf = AllOutOfRange
        /\ oor_total = 0
        /\ x = 0
        /\ y = 0
        /\ idx = [gridx |-> 0, gridy |-> 0, bin |-> 0, set |-> FALSE]
        /\ lut_idx = -1
        /\ pc = "loop"
        /\ screen = [reads |-> {}]
        /\ printed = {}
        /\ seen = {}
        /\ last_oor = 0
        /\ led = "LED_GREEN"
        /\ handler = "intr"
        /\ word = 0
        /\ tty = NewTty

\* The entry of depth(): the six memsets; i = 0 is the pixel (x, y) = (0, 0).
StatsClear ==
    /\ pc = "clear"
    /\ data' = [data EXCEPT !.st = stats_arrays]
    /\ idx' = [gridx |-> 0, gridy |-> 0, bin |-> 0, set |-> FALSE]
    /\ x' = 0
    /\ y' = 0
    /\ pc' = "bin"
    /\ UNCHANGED <<buf, oor_total, lut_idx, screen, printed, seen, last_oor, led, handler,
                   word, tty>>

\* buf[i] * SM_HIST_SIZE / 1024
hist_bin(code) == CDiv(code * SM_HIST_SIZE, 1024)

\* small_histogram[gridy][gridx][b]++: inside the array the word at the flat
\* index, which belongs to another box when b >= SM_HIST_SIZE; behind the
\* array a word of another local.
hist_increment(st, gridy, gridx, b) ==
    LET k == BoxIndex(gridy, gridx) * SM_HIST_SIZE + b
    IN  IF k \in DOMAIN st.small_histogram
        THEN [st EXCEPT !.small_histogram[k] = @ + 1]
        ELSE [st EXCEPT !.oob = TRUE]

\* One pass of the loop "fill in grid stats", for the pixel i = (x, y).
StatsPixel ==
    /\ pc = "bin"
    /\ y < FREENECT_FRAME_H
    /\ LET code  == DPT(buf, x, y)
           gridx == PX_TO_GRIDX(x)
           gridy == PX_TO_GRIDY(y)
           c     == BoxIndex(gridy, gridx)
           s0    == [data.st EXCEPT !.div_pix[c] = @ + 1]
       IN  IF code = 2047
           THEN /\ data' = [data EXCEPT !.st = [s0 EXCEPT !.oor_count[c] = @ + 1]]
                /\ oor_total' = oor_total + 1
                /\ UNCHANGED idx
           ELSE LET s1 == hist_increment(s0, gridy, gridx, hist_bin(code))
                IN  /\ data' = [data EXCEPT !.st =
                                  [s1 EXCEPT
                                     !.min[c]   = IF code < @ THEN code ELSE @,
                                     !.max[c]   = IF code > @ THEN code ELSE @,
                                     !.total[c] = @ + code]]
                    /\ idx' = [gridx |-> gridx, gridy |-> gridy, bin |-> hist_bin(code),
                               set |-> TRUE]
                    /\ UNCHANGED oor_total
    /\ x' = NextX
    /\ y' = NextY
    /\ pc' = "bin"
    /\ UNCHANGED <<buf, lut_idx, screen, printed, seen, last_oor, led, handler, word, tty>>

\* The median loop of box c from bin histcount on: the histcount it ends with.
RECURSIVE median_bin(_, _, _, _)
median_bin(st, c, histcount, medcount) ==
    IF histcount >= SM_HIST_SIZE
    THEN histcount
    ELSE LET m == medcount + st.small_histogram[c * SM_HIST_SIZE + histcount]
         IN  IF m >= CDiv(st.div_pix[c] - st.oor_count[c], 2)
             THEN histcount
             ELSE median_bin(st, c, histcount + 1, m)

\* "Calculate grid averages" for box c.
box_average(st, c) ==
    IF st.oor_count[c] < st.div_pix[c]
    THEN [st EXCEPT
            !.avg[c]    = [n |-> st.total[c], d |-> st.div_pix[c] - st.oor_count[c]],
            !.median[c] = CDiv(median_bin(st, c, 0, 0) * 1024 + CDiv(SM_HIST_SIZE, 2),
                               SM_HIST_SIZE)]
    ELSE [st EXCEPT !.min[c] = 2047, !.max[c] = 2047,
                    !.avg[c] = [n |-> 2047, d |-> 1], !.median[c] = 2047]

RECURSIVE grid_averages(_, _)
grid_averages(st, c) ==
    IF c >= divisions * divisions THEN st ELSE grid_averages(box_average(st, c), c + 1)

\* i < FREENECT_FRAME_PIX fails: the averages of all boxes.
StatsAverages ==
    /\ pc = "bin"
    /\ y >= FREENECT_FRAME_H
    /\ data' = [data EXCEPT !.st = grid_averages(@, 0)]
    /\ pc' = "print_x"
    /\ UNCHANGED <<buf, oor_total, x, y, idx, lut_idx, screen, printed, seen, last_oor, led,
                   handler, word, tty>>

\* The indices of depth_lut that lutf(idx) reads: idx_int and idx_int + 1.
lutf(avg) == {ToInt(avg.n, avg.d), ToInt(avg.n, avg.d) + 1}

\* The indices of depth_lut read by "display grid stats" in each mode.
display_reads(st, mode) ==
    IF mode = "STATS"
    THEN UNION {lutf(st.avg[c]) \cup {st.min[c], st.median[c], st.max[c]} : c \in Boxes}
    ELSE IF mode = "HISTOGRAM"
    THEN (IF divisions > 4
          THEN {CDiv(l * 1024, SM_HIST_SIZE) : l \in 0 .. SM_HIST_SIZE - 1}
          ELSE {})
    ELSE {st.min[c] : c \in Boxes}

\* "Display grid stats": what it reads of depth_lut.
StatsDisplay ==
    /\ pc = "print_x"
    /\ screen' = [reads |-> display_reads(data.st, data.disp_mode)]
    /\ pc' = "flag"
    /\ UNCHANGED <<data, buf, oor_total, x, y, idx, lut_idx, printed, seen, last_oor, led,
                   handler, word, tty>>

\* out_of_range = ...; frame++; and depth() returns.
StatsFlag ==
    /\ pc = "flag"
    /\ data' = [data EXCEPT !.out_of_range = alert(oor_total), !.frame = @ + 1]
    /\ pc' = "led"
    /\ UNCHANGED <<buf, oor_total, x, y, idx, lut_idx, screen, printed, seen, last_oor, led,
                   handler, word, tty>>

NextStats ==
    \/ MainLoop \/ DeliverFrame \/ NoFrame \/ EventsError \/ LedUpdate \/ Teardown
    \/ Signal
    \/ StatsClear \/ StatsPixel \/ StatsAverages \/ StatsDisplay \/ StatsFlag

SpecStats == InitStats /\ [][NextStats]_vars

\* ----------------------------------------------------------------- claims
XY == {"xgrid", "ygrid"}
Cells(grid) == 0 .. grid.bufsize - 1
Sentinels == {-1, -2}
Max(S) == IF S = {} THEN 0 ELSE CHOOSE m \in S : \A n \in S : n <= m
Min(a, b) == IF a < b THEN a ELSE b
FullBand == data.ytop = 0 /\ data.ybot = FREENECT_FRAME_H
AllZero(grid) == \A i \in Cells(grid) : grid.gridpop[i] = 0

\* The pixels of the band the binning loop has been through.
Visited ==
    {i \in 1 .. FREENECT_FRAME_PIX :
        /\ PixelY(i) >= data.ytop
        /\ PixelY(i) < data.ybot
        /\ PixelY(i) < y \/ (PixelY(i) = y /\ PixelX(i) < x)}

\* C1: in the binning loop a pixel whose code is 2047 adds exactly one to the
\* out-of-range count (so the count is at every moment the number of 2047
\* pixels the loop has been through), changes no cell and no popmax of either
\* grid, and depth_lut is never read at index 2047.
C1_SentinelPixelSkipped ==
    /\ [](lut_idx # 2047)
    /\ [](pc \in TickPcs \ {"clear"} =>
            oor_total = Cardinality({i \in Visited : buf[i] = 2047}))
    /\ [][(pc = "bin" /\ y < data.ybot /\ DPT(buf, x, y) = 2047 /\ <<x, y>>' # <<x, y>>)
            => /\ oor_total' = oor_total + 1
               /\ data'.xgrid = data.xgrid
               /\ data'.ygrid = data.ygrid
               /\ lut_idx' = lut_idx]_vars

\* C1 witness: the loop has just skipped a 2047 pixel, after binning others.
C1_Witness ==
    /\ pc = "bin"
    /\ x > 0
    /\ DPT(buf, x - 1, y) = 2047
    /\ oor_total > 1
    /\ data.xgrid.popmax > 0

\* C2: whenever depth() has incremented gridpop[v][u], the lateral index u of
\* the overhead grid and of the side grid was inside 0 .. udiv - 1.
C2_LateralIndexInRange ==
    (idx.set /\ pc # "crashed") =>
        /\ idx.xu \in 0 .. data.xgrid.udiv - 1
        /\ idx.yu \in 0 .. data.ygrid.udiv - 1

\* Distances below, inside and above the clip range, and the table's extremes.
ZSamples(grid) ==
    {depth_lut(c) : c \in {0, 600, 946, 1000, 1092, 1093, 2046}}
        \cup {grid.zmin - 1, grid.zmin, grid.zmax, grid.zmax + 1}

\* C3: zworld_to_grid returns an index in 0 .. vdiv - 1 for every distance, and
\* vdiv - 1 for zmax; a pixel at zmax is counted in distance bucket vdiv - 1, and
\* a frame with every pixel at zmax leaves every other row of both grids empty.
C3_DistanceBucketClamped ==
    /\ \A g \in XY :
          /\ \A z \in ZSamples(GridOf(data, g)) :
                zworld_to_grid(GridOf(data, g), z, 1) \in 0 .. GridOf(data, g).vdiv - 1
          /\ zworld_to_grid(GridOf(data, g), GridOf(data, g).zmax, 1) = GridOf(data, g).vdiv - 1
          /\ (pc = "border_x" /\ buf = AllFar /\ GridOf(data, g).zmax = depth_lut(1000)) =>
                \A i \in Cells(GridOf(data, g)) :
                    GridOf(data, g).gridpop[i] # 0 =>
                        i \div GridOf(data, g).udiv = GridOf(data, g).vdiv - 1
    /\ (pc = "bin" /\ idx.set /\ lut_idx >= 0 /\ depth_lut(lut_idx) = data.xgrid.zmax) =>
          /\ idx.xv = data.xgrid.vdiv - 1
          /\ idx.yv = data.ygrid.vdiv - 1

\* C3 witness: the binning of a frame with every pixel at zmax has ended.
C3_Witness ==
    /\ pc = "border_x"
    /\ buf = AllFar
    /\ data.xgrid.zmax = depth_lut(1000)
    /\ FullBand
    /\ idx.xv = data.xgrid.vdiv - 1
    /\ data.xgrid.popmax > 0

\* C4: after a tick the alert flag is set exactly when the out-of-range pixels
\* are more than 35% of the pixels of the active row band (a band with at
\* least one row).
C4_AlertIffBandRatio ==
    (pc = "led" /\ data.frame > 0 /\ data.ytop < data.ybot) =>
        (data.out_of_range = 1 <=>
            100 * oor_total > 35 * FREENECT_FRAME_W * (data.ybot - data.ytop))

\* C5: with the full row band a frame of 2047 only ends its binning with the
\* count at FREENECT_FRAME_PIX, all cells and both popmax zero, and the tick
\* leaves the alert flag set.
C5_AllOutOfRangeFrame ==
    (buf = AllOutOfRange /\ FullBand) =>
        /\ pc = "border_x" =>
              /\ oor_total = FREENECT_FRAME_PIX
              /\ \A g \in XY : AllZero(GridOf(data, g)) /\ GridOf(data, g).popmax = 0
        /\ (pc = "led" /\ data.frame > 0) => data.out_of_range = 1

\* C5 witness: such a tick has returned with the flag set.
C5_Witness ==
    /\ buf = AllOutOfRange
    /\ FullBand
    /\ pc = "led"
    /\ data.frame > 0
    /\ oor_total = FREENECT_FRAME_PIX
    /\ data.out_of_range = 1

NonSentinel(grid) == {grid.gridpop[i] : i \in Cells(grid)} \ Sentinels
AllCells(grid) == {grid.gridpop[i] : i \in Cells(grid)}
\* The states of a tick in which draw_grid_border has not yet run on grid g.
BeforeBorder(g) ==
    pc \in (IF g = "xgrid" THEN {"bin", "border_x"} ELSE {"bin", "border_x", "border_y"})

C7_CellsAndSentinels ==
    /\ [](\A g \in XY : \A n \in AllCells(GridOf(data, g)) : n >= 0 \/ n \in Sentinels)
    /\ [](pc = "bin" => \A g \in XY : AllCells(GridOf(data, g)) \cap Sentinels = {})
    /\ [][\A g \in XY : \A i \in Cells(GridOf(data, g)) :
            LET old == GridOf(data, g).gridpop[i]
                new == GridOf(data', g).gridpop[i]
            IN  /\ (new \in Sentinels /\ new # old) =>
                      pc = (IF g = "xgrid" THEN "border_x" ELSE "border_y")
                /\ (old \in Sentinels /\ new # old) =>
                      \/ pc = "clear" /\ new = 0
                      \/ pc \in {"border_x", "border_y"} /\ new \in Sentinels]_vars

\* C7 witness: a bordered grid with counted cells left, and a second tick
\* binning into cells that held sentinels in the first.
C7_Witness ==
    /\ pc = "bin"
    /\ data.frame > 0
    /\ data.xgrid.popmax > 0
    /\ \E p \in seen : \E i \in Cells(data.xgrid) :
          p[2].xpop[i] \in Sentinels /\ data.xgrid.gridpop[i] > 0

\* C8: a frame processed in two ticks of a session gives the same grids, the
\* same popmax values and the same out-of-range count both times.
C8_SameFrameSameResult ==
    \A p \in seen : \A q \in seen : p[1] = q[1] => p[2] = q[2]

\* The palette index print_grid wrote for gridpop[v][u] of grid g.
Rendered(g, v, u) ==
    IF g = "ygrid" THEN screen[g].rows[u + 1][v + 1] ELSE screen[g].rows[v + 1][u + 1]

\* C9: print_grid never divides by zero: the scale it uses is popmax when
\* popmax > 0 and 1 when popmax is 0, and with popmax 0 every cell that holds no
\* sentinel is printed as the blank glyph.
C9_ScaleNeverZero ==
    /\ pc # "sigfpe"
    /\ \A g \in printed :
          LET grid == GridOf(data, g)
          IN  /\ screen[g].scale >= 1
              /\ screen[g].scale = (IF grid.popmax > 0 THEN grid.popmax ELSE 1)
              /\ grid.popmax = 0 =>
                    \A v \in 0 .. grid.vdiv - 1 : \A u \in 0 .. grid.udiv - 1 :
                        gridpop_read(grid, v, u) \notin Sentinels =>
                            /\ Rendered(g, v, u) = 0
                            /\ charset[Rendered(g, v, u) + 1] = " "

\* C9 witness: a grid with popmax 0 and a cell without sentinel has been printed.
C9_Witness ==
    /\ "xgrid" \in printed
    /\ data.xgrid.popmax = 0
    /\ screen.xgrid.scale = 1
    /\ \E i \in Cells(data.xgrid) : data.xgrid.gridpop[i] = 0

\* C10: print_cell selects palette index min(floor(val * 20 / scale), 5) for a
\* count, 6 ('/') for -1 and 7 ('\') for -2, always within 0 .. 7; a cell equal
\* to popmax > 0 gets index 5, the glyph '8' (so does val = 10 under scale 10).
C10_PaletteIndex ==
    /\ print_cell(10, 10) = 5
    /\ \A g \in printed :
          LET grid == GridOf(data, g)
          IN  \A v \in 0 .. grid.vdiv - 1 : \A u \in 0 .. grid.udiv - 1 :
                LET val == gridpop_read(grid, v, u)
                    c   == Rendered(g, v, u)
                IN  /\ c \in 0 .. 7
                    /\ val >= 0 => c = Min((val * 20) \div screen[g].scale, 5)
                    /\ val = -1 => c = 6 /\ charset[c + 1] = "/"
                    /\ val = -2 => c = 7 /\ charset[c + 1] = "\\"
                    /\ (val > 0 /\ val = grid.popmax) => c = 5 /\ charset[c + 1] = "8"

\* C10 witness: a printed grid with a cell of value 10 under scale 10, a border
\* on both sides and an empty cell.
C10_Witness ==
    /\ "xgrid" \in printed
    /\ screen.xgrid.scale = 10
    /\ \E i \in Cells(data.xgrid) : data.xgrid.gridpop[i] = 10
    /\ \E i \in Cells(data.xgrid) : data.xgrid.gridpop[i] = -1
    /\ \E i \in Cells(data.xgrid) : data.xgrid.gridpop[i] = -2
    /\ \E r \in 1 .. data.xgrid.vdiv : \E k \in 1 .. data.xgrid.udiv : screen.xgrid.rows[r][k] = 5

\* ------------------------------------------------------------------- C11
\* The states of a tick in which draw_grid_border has returned for grid g.
AfterBorder(g) ==
    pc \in (IF g = "xgrid" THEN {"border_y", "print_x", "print_y", "flag", "flag_store"}
                            ELSE {"print_x", "print_y", "flag", "flag_store"})

\* The columns of row v that hold the value val.
ColumnsOf(grid, v, val) ==
    {u \in 0 .. grid.udiv - 1 : grid.gridpop[GridIndex(grid, v, u)] = val}

\* vdiv times the distance of the outer edge of row v.
RowEdge(grid, v) == zgrid_to_world(grid, v) + (grid.zmax - grid.zmin)

\* The two border indices of row v as the grid configuration gives them.
RightIndex(grid, v) ==
    Min(grid.udiv - 1,
        xyworld_to_grid(grid, grid.wmax * RowEdge(grid, v), grid.zmax * grid.vdiv))
LeftIndex(grid, v) ==
    xyworld_to_grid(grid, (-grid.wmax) * RowEdge(grid, v), grid.zmax * grid.vdiv)

\* Row v holds one -1 at the left index and, unless both indices are one
\* column, one -2 at the right index.
RowAnnotated(grid, v) ==
    /\ ColumnsOf(grid, v, -1) = {LeftIndex(grid, v)}
    /\ ColumnsOf(grid, v, -2) = {RightIndex(grid, v)} \ {LeftIndex(grid, v)}

Selected(mode) ==
    IF mode = "SHOW_BOTH" THEN {"xgrid", "ygrid"}
    ELSE IF mode = "SHOW_HORIZ" THEN {"xgrid"} ELSE {"ygrid"}

\* C12: in every tick the display mode alone decides what is rendered: the
\* overhead grid is rendered only by the first print_grid call, before anything
\* else of the tick is rendered and only under SHOW_BOTH or SHOW_HORIZ; the side
\* grid only by the second call, after the overhead grid if that is rendered
\* too, and only under SHOW_BOTH or SHOW_VERT; each call renders one whole grid;
\* and when rendering is over exactly the grids of the mode have been rendered.
C12_ModeDecidesRendering ==
    /\ [][(printed' # printed \/ screen' # screen) =>
            \/ /\ pc = "events"
               /\ printed' = {}
               /\ screen' = screen
            \/ /\ pc = "print_x"
               /\ data.disp_mode \in {"SHOW_BOTH", "SHOW_HORIZ"}
               /\ printed = {}
               /\ printed' = {"xgrid"}
               /\ screen'.ygrid = screen.ygrid
               /\ screen'.xgrid.rows = print_grid(data.xgrid, FALSE)
            \/ /\ pc = "print_y"
               /\ data.disp_mode \in {"SHOW_BOTH", "SHOW_VERT"}
               /\ "ygrid" \notin printed
               /\ printed' = printed \cup {"ygrid"}
               /\ screen'.xgrid = screen.xgrid
               /\ screen'.ygrid.rows = print_grid(data.ygrid, TRUE)]_vars
    /\ [](pc \in {"flag", "flag_store"} => printed = Selected(data.disp_mode))

\* C12 witness: a tick under SHOW_BOTH has rendered both grids, one under
\* SHOW_HORIZ or SHOW_VERT would have rendered one.
C12_Witness ==
    /\ pc = "flag"
    /\ data.disp_mode = "SHOW_BOTH"
    /\ printed = {"xgrid", "ygrid"}
    /\ screen.xgrid.rows = print_grid(data.xgrid, FALSE)
    /\ screen.ygrid.rows = print_grid(data.ygrid, TRUE)
    /\ data.xgrid.popmax > 0

\* ------------------------------------------------------------------- C13
\* A step in which a tick of depth() ends: its last statement has run.
TickEnds == pc = "flag_store" /\ pc' = "led"

\* C13: the frame counter starts at 0, goes up by exactly 1 in the step that
\* ends a tick of depth() and is written by no other step, so that it counts
\* the ticks that ran to their end and never goes back to a smaller value.
C13_FrameCounter ==
    /\ data.frame = 0
    /\ [][/\ TickEnds => data'.frame = data.frame + 1
          /\ ~TickEnds => data'.frame = data.frame
          /\ data'.frame >= data.frame]_vars

\* C13 witness: two ticks have run to their end and the counter is 2.
C13_Witness ==
    /\ pc = "led"
    /\ data.frame = 2
    /\ Cardinality(seen) = 2

\* ------------------------------------------------------------------- C14
\* C14: however intr() interleaves with depth() and the main loop, once done
\* is 1 it stays 1 (the write of out_of_range by depth() does not clear it) and
\* the main loop leaves at its next test of done, for the teardown, without
\* another call of freenect_process_events.
C14_DoneStaysSet ==
    [][/\ data.done = 1 => data'.done = 1
       /\ (data.done = 1 /\ pc = "loop" /\ pc' # pc) => pc' \in {"teardown", "exited"}]_vars

\* ------------------------------------------------------------------- C15
\* C15: whatever -y and -Y were given, the row band depth() works on satisfies
\* 0 <= ytop < ybot <= FREENECT_FRAME_H, and -Y n selects the exclusive bottom
\* n for every n in 0 .. FREENECT_FRAME_H, the range of the usage text.
C15_RowBand ==
    InTick =>
        /\ 0 <= data.ytop
        /\ data.ytop < data.ybot
        /\ data.ybot <= FREENECT_FRAME_H
        /\ \A n \in 0 .. FREENECT_FRAME_H : opt_Y(n) = n

\* ------------------------------------------------------------------- C16
\* C16: the table init_lut builds is monotonically non-decreasing over the
\* codes 0 .. 2046: depth_lut[i] <= depth_lut[j] for every i < j; taken at the
\* code depth() has last looked up, against every other code.
C16_LutMonotonic ==
    lut_idx \in 0 .. 2046 =>
        \A i \in 0 .. 2046 :
            /\ i < lut_idx => depth_lut(i) <= depth_lut(lut_idx)
            /\ lut_idx < i => depth_lut(lut_idx) <= depth_lut(i)

\* ------------------------------------------------------------------- C17
\* The pixels of the band with a return inside the clip range.
InRangePixels ==
    {i \in 1 .. FREENECT_FRAME_PIX :
        /\ PixelY(i) >= data.ytop /\ PixelY(i) < data.ybot
        /\ ~out_of_range_code(buf[i])
        /\ depth_lut(buf[i]) >= data.xgrid.zmin
        /\ depth_lut(buf[i]) <= data.xgrid.zmax}

\* The frame has one in-range pixel, in the centre column, half way between
\* zmin and zmax.
CentrePixelFrame ==
    \E i \in InRangePixels :
        /\ InRangePixels = {i}
        /\ PixelX(i) = CDiv(FREENECT_FRAME_W, 2)
        /\ 2 * depth_lut(buf[i]) = data.xgrid.zmin + data.xgrid.zmax

\* C17: when the binning of such a frame is over and the borders are not yet
\* drawn, the overhead grid holds 1 in the cell of lateral bucket udiv / 2 and
\* distance bucket vdiv / 2 and 0 in every other cell.
C17_CentrePixelCell ==
    (pc = "border_x" /\ CentrePixelFrame) =>
        /\ data.xgrid.gridpop =
              [i \in Cells(data.xgrid) |->
                  IF i = GridIndex(data.xgrid, CDiv(data.xgrid.vdiv, 2), CDiv(data.xgrid.udiv, 2))
                  THEN 1 ELSE 0]
        /\ ~data.xgrid.oob

\* C17 witness: such a frame has been binned and its one increment recorded.
C17_Witness ==
    /\ pc = "border_x"
    /\ CentrePixelFrame
    /\ idx.set
    /\ idx.xu = CDiv(data.xgrid.udiv, 2)
    /\ idx.xv = CDiv(data.xgrid.vdiv, 2)
    /\ data.xgrid.popmax = 1

\* ------------------------------------------------------------------- C18
\* n / d rounded down, and rounded toward zero.
Floor(n, d) == IF d < 0 THEN (-n) \div (-d) ELSE n \div d
Truncated(n, d) == IF Floor(n, d) >= 0 THEN Floor(n, d) ELSE -Floor(-n, d)

\* A step of the binning loop that puts the pixel (x, y) into both grids.
BinsPixel ==
    /\ pc = "bin"
    /\ y < data.ybot
    /\ x' # x \/ pc' = "crashed"
    /\ ~out_of_range_code(DPT(buf, x, y))
    /\ depth_lut(DPT(buf, x, y)) >= data.xgrid.zmin
    /\ depth_lut(DPT(buf, x, y)) <= data.xgrid.zmax

\* (offset + wmax) * udiv and 2 * wmax for the pixel (x, y) on either grid.
XQuotient == <<(xworld(x, depth_lut(DPT(buf, x, y))) + data.xgrid.wmax) * data.xgrid.udiv,
               2 * data.xgrid.wmax>>
YQuotient == <<(yworld(y, depth_lut(DPT(buf, x, y))) + data.ygrid.wmax) * data.ygrid.udiv,
               2 * data.ygrid.wmax>>

\* C18 as stated: for both grids and every in-range pixel of the band the
\* lateral index is floor((offset + wmax) * udiv / (2 * wmax)): rounded toward
\* the lower bucket, never toward zero, the negative quotients of the side grid
\* included.
C18_LateralIndexIsFloor ==
    [][BinsPixel =>
          /\ idx'.xu = Floor(XQuotient[1], XQuotient[2])
          /\ pc' # "crashed" => idx'.yu = Floor(YQuotient[1], YQuotient[2])]_vars

\* C18 amended: for both grids and every in-range pixel of the band the lateral
\* index is (offset + wmax) * udiv / (2 * wmax) rounded toward zero: the floor
\* of a quotient >= 0, and 0 (not -1) for a quotient between -1 and 0, as the
\* side grid has in its first rows near zmax.
C18_LateralIndexTruncates ==
    [][BinsPixel =>
          /\ idx'.xu = Truncated(XQuotient[1], XQuotient[2])
          /\ pc' # "crashed" => idx'.yu = Truncated(YQuotient[1], YQuotient[2])]_vars

\* C18 witness: the pixel (0, 0) has just been binned; its quotient on the side
\* grid is negative and its index there is 0.
C18_Witness ==
    /\ pc = "bin" /\ x = 1 /\ y = 0 /\ data.ytop = 0
    /\ idx.set
    /\ (yworld(0, depth_lut(DPT(buf, 0, 0))) + data.ygrid.wmax) * data.ygrid.wmax < 0
    /\ idx.yu = 0

\* ------------------------------------------------------------------- C19
\* The order of the phases of a tick, and of the main loop around it.
PhaseSteps ==
    {<<"loop", "events">>, <<"loop", "teardown">>, <<"events", "clear">>,
     <<"events", "led">>, <<"events", "teardown">>, <<"clear", "bin">>,
     <<"bin", "border_x">>, <<"border_x", "border_y">>, <<"border_y", "print_x">>,
     <<"print_x", "print_y">>, <<"print_y", "flag">>, <<"flag", "flag_store">>,
     <<"flag_store", "led">>, <<"led", "loop">>, <<"teardown", "exited">>}

\* C19: a tick of depth() goes through its phases in the one order clear,
\* bin, annotate the overhead grid, annotate the side grid, render, set the
\* alert flag and count the frame; a phase starts when the one before it is
\* over, a frame is accepted only between ticks, the grids are cleared and
\* filled in their phases only, and whenever a grid is rendered the binning
\* loop has been through the whole band and both grids carry their borders.
C19_PhaseOrder ==
    [][/\ pc' # pc => (<<pc, pc'>> \in PhaseSteps \/ pc' \in {"exited", "aborted", "crashed", "sigfpe"})
       /\ buf' # buf => pc = "events"
       /\ (pc = "bin" /\ pc' = "border_x") => y >= data.ybot
       /\ (data'.xgrid # data.xgrid \/ data'.ygrid # data.ygrid) =>
              pc \in {"clear", "bin", "border_x", "border_y"}
       /\ (data'.out_of_range # data.out_of_range \/ data'.frame # data.frame) =>
              pc = "flag_store"
       /\ screen' # screen =>
              /\ y >= data.ybot
              /\ \A g \in XY : \A v \in 0 .. GridOf(data, g).vdiv - 1 :
                    RowAnnotated(GridOf(data, g), v)]_vars

\* C19 witness: a tick has gone through all its phases: the frame is counted,
\* both grids are rendered as they stand, with their borders and the counts of
\* the whole band.
C19_Witness ==
    /\ pc = "led"
    /\ data.frame = 1
    /\ y = data.ybot
    /\ printed = XY
    /\ screen.xgrid.rows = print_grid(data.xgrid, FALSE)
    /\ screen.ygrid.rows = print_grid(data.ygrid, TRUE)
    /\ \A v \in 0 .. data.xgrid.vdiv - 1 : RowAnnotated(data.xgrid, v)
    /\ data.ygrid.popmax > 0

\* ------------------------------------------------------------------- C20
\* C20: for every accepted configuration, a negative -z included,
\* draw_grid_border writes no sentinel outside the columns 0 .. udiv - 1 of its
\* row: no sentinel lands outside the grid's buffer, and when it calls abort()
\* nothing of the frame has been rendered.
C20_BorderWritesInRange ==
    /\ \A g \in XY : ~(GridOf(data, g).oob /\ GridOf(data, g).outside \in Sentinels)
    /\ pc = "aborted" => printed = {}

\* ------------------------------------------------------------------- C21
\* The glyphs written so far in the current tick, in the order written.
FrameCells ==
    (IF "xgrid" \in printed THEN screen.xgrid.cells ELSE <<>>)
        \o (IF "ygrid" \in printed THEN screen.ygrid.cells ELSE <<>>)

\* The (bold, foreground, background) print_cell asks of set_color for the
\* palette index c, as the SGR values that stand for them.
Wanted(c) ==
    <<palette_bold(c), (set_color_fg(palette_bold(c), palette_fg(c), 0) % 8) + 30, 40>>

\* The SGR codes that turn the attributes from into the attributes to.
Changes(from, to) ==
    (IF from[1] # to[1] THEN <<IF to[1] = 1 THEN 1 ELSE 22>> ELSE <<>>)
        \o (IF from[2] # to[2] THEN <<to[2]>> ELSE <<>>)
        \o (IF from[3] # to[3] THEN <<to[3]>> ELSE <<>>)

LedFor(flag) == IF flag = 1 THEN "LED_BLINK_RED_YELLOW" ELSE "LED_GREEN"

\* C22: in the main loop the LED is commanded after a process-events call
\* exactly when the alert flag differs from last_oor, to blink for 1 and to
\* green for 0, and not while the flag is what it was; at the end of every
\* iteration last_oor is the flag and the LED state last commanded is the one of
\* the flag.
C22_LedFollowsFlag ==
    /\ [](pc = "loop" => (last_oor = data.out_of_range /\ led = LedFor(data.out_of_range)))
    /\ [][/\ (led' # led \/ last_oor' # last_oor) =>
                \/ pc = "led" /\ last_oor # data.out_of_range
                \/ pc = "teardown" /\ led' = "LED_OFF" /\ last_oor' = last_oor
          /\ (pc = "led" /\ pc' = "loop" /\ last_oor # data.out_of_range) =>
                (led' = LedFor(data.out_of_range) /\ led' # led)]_vars

\* C22 witness: the flag has gone from 0 to 1 in a tick and the iteration has
\* ended with the LED blinking.
C22_Witness ==
    /\ pc = "loop"
    /\ data.frame = 1
    /\ data.out_of_range = 1
    /\ last_oor = 1
    /\ led = "LED_BLINK_RED_YELLOW"

\* ------------------------------------------------------------------- C25
\* C25: every glyph print_cell writes appears with the bold, foreground and
\* background of its palette level: the terminal has the attributes the three
\* caches stand for, also after reset_color(), after the "\e[m" that ends a
\* frame, and in the frames that follow.
C25_GlyphAttributes ==
    \A k \in 1 .. Len(FrameCells) :
        <<FrameCells[k].bold, FrameCells[k].fg, FrameCells[k].bg>> = Wanted(FrameCells[k].c)

\* C23: in the single-cone prototype, once the range check of depth() has
\* found an index outside the grid in a tick, no write has gone outside
\* gridpop (the increment for that index is not executed) and the grid of that
\* tick is not rendered.
C23_RangeCheckStopsPixel ==
    (pc \in {"bin", "border_x", "print_x", "flag", "led"} /\ idx.err)
        => (~data.xgrid.oob /\ "xgrid" \notin printed)

\* The sum of the cells of a grid buffer from index i on.
RECURSIVE CellSum(_, _)
CellSum(grid, i) == IF i >= grid.bufsize THEN 0 ELSE grid.gridpop[i] + CellSum(grid, i + 1)

\* The pixels of the band with a code other than 2047 and a distance outside
\* the clip range.
ClippedPixels ==
    {i \in 1 .. FREENECT_FRAME_PIX :
        /\ PixelY(i) >= data.ytop /\ PixelY(i) < data.ybot
        /\ ~out_of_range_code(buf[i])
        /\ depth_lut(buf[i]) < data.xgrid.zmin \/ depth_lut(buf[i]) > data.xgrid.zmax}

\* C24: when the binning loop of a tick is over and no border is drawn yet,
\* the cells of the overhead grid and the cells of the side grid both add up
\* to the number of band pixels with a code other than 2047 and a distance
\* inside the clip range, and the out-of-range count, the clipped pixels and
\* the binned pixels together are the FREENECT_FRAME_W * (ybot - ytop) pixels
\* of the band.
C24_GridSumsEqualInRangePixels ==
    (pc = "border_x") =>
        /\ CellSum(data.xgrid, 0) = Cardinality(InRangePixels)
        /\ CellSum(data.ygrid, 0) = Cardinality(InRangePixels)
        /\ oor_total + Cardinality(ClippedPixels) + Cardinality(InRangePixels)
               = FREENECT_FRAME_W * (data.ybot - data.ytop)

\* C26: in the dual-view prototype every call of print_cell has a nonzero
\* scale: when the grids are about to be rendered (xpopmax # 0), xpopmax and
\* the side-view scale ypopmax / 2 are both nonzero, and no print_cell has
\* divided by zero.
C26_DualScalesNonzero ==
    /\ pc # "sigfpe"
    /\ (pc = "print_x" /\ data.xgrid.popmax # 0)
           => dual_side_scale(data.ygrid.popmax) # 0

\* C27: in the grid-statistics program, for every pixel with a code in
\* 0 .. 2046 the histogram bin buf[i] * SM_HIST_SIZE / 1024 lies in
\* 0 .. SM_HIST_SIZE - 1 and gridx, gridy lie in 0 .. divisions - 1, and no
\* write has left the arrays.
C27_HistogramBinInRange ==
    /\ ~data.st.oob
    /\ idx.set => /\ idx.bin \in 0 .. SM_HIST_SIZE - 1
                  /\ idx.gridx \in 0 .. divisions - 1
                  /\ idx.gridy \in 0 .. divisions - 1

\* C28: in the grid-statistics program every read of depth_lut by the
\* display, those of lutf(avg) included, has an index in 0 .. 2047.
C28_LutReadsInRange == \A r \in screen.reads : r \in 0 .. 2047

====
